---- MODULE Spec2Model ----
(***************************************************************************)
(* Model of the breakfix graph engine (src/breakfix/graph.py) and of the   *)
(* node topology it drives (src/breakfix/nodes.py).                        *)
(*                                                                         *)
(* Spec       : run_graph with a checkpoint directory, run any number of   *)
(*              times on the same directory, over an arbitrary chain of    *)
(*              steps with deterministic collaborators; a run may be       *)
(*              killed at any statement.                                   *)
(* SpecTwice  : Spec, where a run may also start from a directory with    *)
(*              the content the previous run started from.                 *)
(* SpecNested : the project run of nodes.py from start_project_node        *)
(*              through its phases, the per-unit outer step                *)
(*              (phase_oracle_node of nodes.py, unit_orchestrator_node of  *)
(*              graph/graph2.py) and the inner unit graphs it runs through *)
(*              nested calls of run_graph.                                 *)
(* SpecNodesFair : the project run of nodes.py with no limit on the number *)
(*              of times an inner run goes back to a node, under weak      *)
(*              fairness of its steps.                                     *)
(* SpecAgents : one call of a node that awaits an agent: the retry loops   *)
(*              of run_ratchet_red, run_ratchet_green, run_sentinel and    *)
(*              run_prototyper (src/breakfix/agents), the node's return    *)
(*              and the case of run_graph that matches it.                 *)
(* SpecCrucibleFlow : one call of crucible_flow                            *)
(*              (src/breakfix/flows/crucible_flow.py).                     *)
(* SpecGuess  : one run of the example guessing graph                     *)
(*              (src/graph/graph.py).                                      *)
(***************************************************************************)
EXTENDS Integers, Sequences, FiniteSets, TLC

\* Longest chain of continuations a start step can lead to.
MaxSteps == 3
\* Number of times run_graph is invoked on the same checkpoint directory.
MaxRuns == 4

\* Longest unit queue, longest test-case list of a unit, most surviving mutants
\* a mutation run reports, and the number of times the collaborators of one
\* inner run make a step loop back (retry, imperfect score, regression).
MaxUnits == 3
MaxTests == 2
MaxMutants == 2
MaxLoops == 1

\* Payloads of FinalResult, messages of NodeError, exceptions a step raises.
Payloads == {"42", "7"}
Messages == {"bad", "Invalid input"}
Exceptions == {"KeyError", "RuntimeError"}

VARIABLES
    cpGiven,              \* checkpoint_dir argument is given (same for every run)
    dirExists,            \* the checkpoint directory exists on disk
    files,                \* number |-> content of <number>.pickle
    behaviour,            \* step |-> the result its collaborators make it produce
    runNo,                \* invocations of run_graph so far
    pc,                   \* position of the current run inside run_graph
    node_result,          \* run_graph's local node_result
    next_checkpoint_num,  \* run_graph's local next_checkpoint_num
    outcome,              \* how the current run ended
    startInvoked,         \* the current run has called start_node
    dispatched,           \* steps the current run has called from the loop
    resumedFrom,          \* checkpoint number the current run resumed from (0: none)
    loadable,             \* numbers of the checkpoints the current run loaded
    completedPrev,        \* steps that completed in earlier runs
    writes,               \* checkpoint numbers opened for writing, in order
    dirAtStart,           \* content of the directory when the current run was called
    prev,                 \* the previous run, if it ended: its directory and result
    topology,             \* "nodes" (breakfix/nodes.py) or "graph2" (graph/graph2.py)
    unit_queue,           \* state.unit_queue: units as [id, symbol_type, tests]
    finished_units,       \* state.finished_units: markers as [id, marker]
    o_pc,                 \* position of the outer run_graph
    o_result,             \* node_result of the outer run_graph
    o_outcome,            \* how the outer run_graph ended
    o_dispatched,         \* steps the outer run_graph has called from its loop
    at,                   \* position inside the per-unit outer step
    idx,                  \* loop index i of phase_oracle_node (1-based)
    engines,              \* inner run_graph instances, in order of creation
    o_checkpoints,        \* steps named by the checkpoint files of the project run
    oracle_calls,         \* units deps.run_oracle was called for, in order
    capped,               \* TRUE: a run goes back to an earlier node at most MaxLoops times
    agent,                \* one call of a node that awaits an agent's retry loop
    flow                  \* one call of crucible_flow

engineVars == <<cpGiven, dirExists, files, behaviour, runNo, pc, node_result,
                next_checkpoint_num, outcome, startInvoked, dispatched,
                resumedFrom, loadable, completedPrev, writes, dirAtStart, prev>>

twinVars == <<dirAtStart, prev>>

agentVars == <<agent, flow>>

nestedVars == <<topology, unit_queue, finished_units, o_pc, o_result,
                o_outcome, o_dispatched, at, idx, engines, o_checkpoints,
                oracle_calls, capped>>

projectVars == <<nestedVars, agentVars>>

vars == <<engineVars, projectVars>>

-----------------------------------------------------------------------------
\* Result variants (graph.py: MoveToNode, NodeError, FinalResult) and the two
\* values outside them a step can return: a falsy one (None) and a truthy one.

Value(k, n, v, p) == [kind |-> k, node |-> n, val |-> v, picklable |-> p]

MoveToNode(n, p) == Value("MoveToNode", n, "", p)
FinalResult(res) == Value("FinalResult", 0, res, TRUE)
NodeError(err) == Value("NodeError", 0, err, TRUE)
Raises(e) == Value("raise", 0, e, TRUE)
ReturnsNone == Value("None", 0, "", TRUE)
ReturnsOther == Value("other", 0, "", TRUE)
Unset == Value("unset", 0, "", TRUE)

\* How a run of run_graph ends.
Ended(k, v) == [kind |-> k, val |-> v]
Running == Ended("running", "")
Returned(res) == Ended("return", res)
ReturnedNone == Ended("return", "None")
Escaped(e) == Ended("escaped", e)

\* Faulty variant: the message of the NodeError is not passed on.
NodeErroredMsgLost(err) == Ended("NodeErrored", "Node returned an error")
\* raise NodeErrored(err)
NodeErrored(err) == Ended("NodeErrored", err)

\* Faulty variant: NodeFailed is raised without "from e".
NodeFailedNoCause(e) == Ended("NodeFailed", "None")
\* raise NodeFailed(...) from e
NodeFailed(e) == Ended("NodeFailed", e)

\* Content of a checkpoint file: a complete pickle, a zero-length file (open
\* created it, nothing was flushed), or a pickle cut short.
Pickled(obj) == [state |-> "ok", obj |-> obj]
EmptyFile == [state |-> "empty", obj |-> Unset]
TruncatedFile == [state |-> "trunc", obj |-> Unset]

Max(S) == CHOOSE x \in S : \A y \in S : y <= x
Min(S) == CHOOSE x \in S : \A y \in S : x <= y
Range(s) == {s[i] : i \in DOMAIN s}

-----------------------------------------------------------------------------
\* Steps.  Step 0 is the start step; step n >= 1 is the n-th continuation of
\* the chain.  Collaborators are deterministic: the first execution of a step
\* fixes its result, every later execution repeats it.

Steps == 0..MaxSteps

Terminals ==
    {FinalResult(r) : r \in Payloads} \cup {NodeError(m) : m \in Messages}
    \cup {Raises(e) : e \in Exceptions} \cup {ReturnsNone, ReturnsOther}

Outcomes(n) ==
    Terminals \cup
    (IF n < MaxSteps THEN {MoveToNode(n + 1, p) : p \in BOOLEAN} ELSE {})

StepResults(n) ==
    IF behaviour[n] = Unset THEN Outcomes(n) ELSE {behaviour[n]}

-----------------------------------------------------------------------------
\* _load_checkpoints

\* pickle.load raises EOFError on a zero-length file; the except clause names
\* only ValueError and pickle.PickleError, so it escapes.
LoadRaises(fs) == \E k \in DOMAIN fs : fs[k].state = "empty"

\* The files that append to checkpoints: a cut-short pickle raises
\* UnpicklingError, a PickleError, and is skipped.
Loaded(fs) == {k \in DOMAIN fs : fs[k].state = "ok"}

\* next_num = max(c[0] for c in checkpoints) + 1 if checkpoints else 1
NextNum(cps) == IF cps = {} THEN 1 ELSE Max(cps) + 1

\* Faulty variant: resumes from checkpoints[0].
ResumeFirst(cps) == Min(cps)
\* last_num, last_obj = checkpoints[-1]   (checkpoints sorted by number)
ResumePoint(cps) == Max(cps)

\* Faulty variant: the loaded checkpoints are left in directory order, so the
\* last one is any of them.
ResumeAnyOrder(cps) == cps
\* checkpoints.sort(key=...) then checkpoints[-1]: one candidate.
ResumePoints(cps) == {ResumePoint(cps)}

-----------------------------------------------------------------------------
\* What is kept of a run that has ended (returned or raised), for comparison
\* with the next run; nothing is kept of a run that was killed.
NoRun ==
    [valid |-> FALSE, dir |-> <<>>, startInvoked |-> FALSE, dispatched |-> <<>>,
     outcome |-> Running]
EndedRun ==
    [valid |-> TRUE, dir |-> dirAtStart, startInvoked |-> startInvoked,
     dispatched |-> dispatched, outcome |-> outcome]

\* No node is awaiting an agent and crucible_flow has not been called.
NoCall == [fn |-> "", pc |-> "idle"]
NoFlow == [pc |-> "idle"]

\* The project variables while only the engine is exercised.
ProjectIdle ==
    /\ agent = NoCall
    /\ flow = NoFlow
    /\ topology = "nodes"
    /\ unit_queue = <<>>
    /\ finished_units = <<>>
    /\ o_pc = "idle"
    /\ o_result = [kind |-> "unset", fn |-> "", val |-> <<>>]
    /\ o_outcome = [kind |-> "running", val |-> <<>>]
    /\ o_dispatched = <<>>
    /\ at = "none"
    /\ idx = 0
    /\ engines = <<>>
    /\ o_checkpoints = <<>>
    /\ oracle_calls = <<>>
    /\ capped = TRUE

Init ==
    /\ cpGiven \in BOOLEAN
    /\ dirExists \in BOOLEAN
    /\ files = <<>>
    /\ behaviour = [n \in Steps |-> Unset]
    /\ runNo = 0
    /\ pc = "idle"
    /\ node_result = Unset
    /\ next_checkpoint_num = 1
    /\ outcome = Running
    /\ startInvoked = FALSE
    /\ dispatched = <<>>
    /\ resumedFrom = 0
    /\ loadable = {}
    /\ completedPrev = {}
    /\ writes = <<>>
    /\ dirAtStart = <<>>
    /\ prev = NoRun
    /\ ProjectIdle

Completed == Range(dispatched) \cup (IF startInvoked THEN {0} ELSE {})

\* run_graph is called: lines 72-88.  With an existing directory the
\* checkpoints are loaded; the highest-numbered one becomes node_result.
Invoke ==
    /\ pc \in {"idle", "done", "halted"}
    /\ runNo < MaxRuns
    /\ runNo' = runNo + 1
    /\ completedPrev' = completedPrev \cup Completed
    /\ startInvoked' = FALSE
    /\ dispatched' = <<>>
    /\ IF cpGiven /\ dirExists
       THEN IF LoadRaises(files)
            THEN /\ pc' = "done"
                 /\ outcome' = Escaped("EOFError")
                 /\ node_result' = Unset
                 /\ next_checkpoint_num' = 1
                 /\ resumedFrom' = 0
                 /\ loadable' = Loaded(files)
            ELSE /\ loadable' = Loaded(files)
                 /\ next_checkpoint_num' = NextNum(Loaded(files))
                 /\ outcome' = Running
                 /\ IF Loaded(files) # {}
                    THEN \E r \in ResumePoints(Loaded(files)) :
                         /\ resumedFrom' = r
                         /\ node_result' = files[r].obj
                         /\ pc' = "loop"
                    ELSE /\ resumedFrom' = 0
                         /\ node_result' = Unset
                         /\ pc' = "start"
       ELSE /\ pc' = "start"
            /\ outcome' = Running
            /\ node_result' = Unset
            /\ next_checkpoint_num' = 1
            /\ resumedFrom' = 0
            /\ loadable' = {}
    /\ dirAtStart' = files
    /\ prev' = IF pc = "done" THEN EndedRun ELSE NoRun
    /\ UNCHANGED <<projectVars, cpGiven, dirExists, files, behaviour, writes>>

\* node_result = await start_node(...), lines 90-95 and 98-103.
StartNode ==
    /\ pc = "start"
    /\ \E r \in StepResults(0) :
        /\ behaviour' = [behaviour EXCEPT ![0] = r]
        /\ startInvoked' = TRUE
        /\ IF r.kind = "raise"
           THEN /\ pc' = "done"
                /\ outcome' = NodeFailed(r.val)
                /\ node_result' = node_result
           ELSE /\ pc' = "loop"
                /\ outcome' = outcome
                /\ node_result' = r
    /\ UNCHANGED <<projectVars, twinVars, cpGiven, dirExists, files, runNo, next_checkpoint_num,
                   dispatched, resumedFrom, loadable, completedPrev, writes>>

\* Faulty variant: the checkpoint is written whether or not a directory was given.
SaveUnconditionally ==
    /\ pc = "loop"
    /\ node_result.kind = "MoveToNode"
    /\ dirExists
    /\ files' = [k \in DOMAIN files \cup {next_checkpoint_num} |->
                    IF k = next_checkpoint_num THEN EmptyFile ELSE files[k]]
    /\ writes' = Append(writes, [num |-> next_checkpoint_num,
                                 existed |-> next_checkpoint_num \in DOMAIN files])
    /\ pc' = "save_dump"
    /\ UNCHANGED <<projectVars, twinVars, cpGiven, dirExists, behaviour, runNo, node_result,
                   next_checkpoint_num, outcome, startInvoked, dispatched,
                   resumedFrom, loadable, completedPrev>>
\* case MoveToNode with a checkpoint path: open(checkpoint_path, "wb").
SaveCheckpointOpen ==
    /\ pc = "loop"
    /\ node_result.kind = "MoveToNode"
    /\ cpGiven
    /\ IF dirExists
       THEN /\ files' = [k \in DOMAIN files \cup {next_checkpoint_num} |->
                            IF k = next_checkpoint_num THEN EmptyFile ELSE files[k]]
            /\ writes' = Append(writes, [num |-> next_checkpoint_num,
                                         existed |-> next_checkpoint_num \in DOMAIN files])
            /\ pc' = "save_dump"
            /\ outcome' = outcome
       ELSE /\ pc' = "done"
            /\ outcome' = Escaped("FileNotFoundError")
            /\ UNCHANGED <<files, writes>>
    /\ UNCHANGED <<projectVars, twinVars, cpGiven, dirExists, behaviour, runNo, node_result,
                   next_checkpoint_num, startInvoked, dispatched, resumedFrom,
                   loadable, completedPrev>>

\* pickle.dump(obj, fp), then next_checkpoint_num += 1.
SaveCheckpointDump ==
    /\ pc = "save_dump"
    /\ IF node_result.picklable
       THEN /\ files' = [files EXCEPT ![next_checkpoint_num] = Pickled(node_result)]
            /\ next_checkpoint_num' = next_checkpoint_num + 1
            /\ pc' = "call"
            /\ outcome' = outcome
       ELSE /\ pc' = "done"
            /\ outcome' = Escaped("PicklingError")
            /\ UNCHANGED <<files, next_checkpoint_num>>
    /\ UNCHANGED <<projectVars, twinVars, cpGiven, dirExists, behaviour, runNo, node_result,
                   startInvoked, dispatched, resumedFrom, loadable,
                   completedPrev, writes>>

\* Faulty variant: the step is called whether or not its checkpoint was saved.
DispatchUnsaved ==
    /\ pc = "loop"
    /\ node_result.kind = "MoveToNode"
    /\ pc' = "call"
    /\ UNCHANGED <<projectVars, twinVars, cpGiven, dirExists, files, behaviour, runNo, node_result,
                   next_checkpoint_num, outcome, startInvoked, dispatched,
                   resumedFrom, loadable, completedPrev, writes>>
\* case MoveToNode without a checkpoint path: nothing is saved.
NoCheckpoint ==
    /\ pc = "loop"
    /\ node_result.kind = "MoveToNode"
    /\ ~cpGiven
    /\ pc' = "call"
    /\ UNCHANGED <<projectVars, twinVars, cpGiven, dirExists, files, behaviour, runNo, node_result,
                   next_checkpoint_num, outcome, startInvoked, dispatched,
                   resumedFrom, loadable, completedPrev, writes>>

\* node_result = await fn(deps=deps), lines 113-117.
CallNode ==
    /\ pc = "call"
    /\ \E r \in StepResults(node_result.node) :
        /\ behaviour' = [behaviour EXCEPT ![node_result.node] = r]
        /\ dispatched' = Append(dispatched, node_result.node)
        /\ IF r.kind = "raise"
           THEN /\ pc' = "done"
                /\ outcome' = NodeFailed(r.val)
                /\ node_result' = node_result
           ELSE /\ pc' = "loop"
                /\ outcome' = outcome
                /\ node_result' = r
    /\ UNCHANGED <<projectVars, twinVars, cpGiven, dirExists, files, runNo, next_checkpoint_num,
                   startInvoked, resumedFrom, loadable, completedPrev, writes>>

\* Faulty variant: the FinalResult case does not return.
FinalContinues ==
    /\ pc = "loop"
    /\ node_result.kind = "FinalResult"
    /\ pc' = "call"
    /\ node_result' = MoveToNode(MaxSteps, TRUE)
    /\ UNCHANGED <<projectVars, twinVars, cpGiven, dirExists, files, behaviour, runNo,
                   next_checkpoint_num, outcome, startInvoked, dispatched,
                   resumedFrom, loadable, completedPrev, writes>>
\* case FinalResult(result=res): return res
MatchFinalResult ==
    /\ pc = "loop"
    /\ node_result.kind = "FinalResult"
    /\ pc' = "done"
    /\ outcome' = Returned(node_result.val)
    /\ UNCHANGED <<projectVars, twinVars, cpGiven, dirExists, files, behaviour, runNo, node_result,
                   next_checkpoint_num, startInvoked, dispatched, resumedFrom,
                   loadable, completedPrev, writes>>

\* case NodeError(error=err): raise NodeErrored(err)
MatchNodeError ==
    /\ pc = "loop"
    /\ node_result.kind = "NodeError"
    /\ pc' = "done"
    /\ outcome' = NodeErrored(node_result.val)
    /\ UNCHANGED <<projectVars, twinVars, cpGiven, dirExists, files, behaviour, runNo, node_result,
                   next_checkpoint_num, startInvoked, dispatched, resumedFrom,
                   loadable, completedPrev, writes>>

\* Faulty variant: every value outside the three variants ends the loop.
FallThroughAny ==
    /\ pc = "loop"
    /\ node_result.kind \in {"None", "other"}
    /\ pc' = "done"
    /\ outcome' = ReturnedNone
    /\ UNCHANGED <<projectVars, twinVars, cpGiven, dirExists, files, behaviour, runNo, node_result,
                   next_checkpoint_num, startInvoked, dispatched, resumedFrom,
                   loadable, completedPrev, writes>>
\* while node_result: a falsy value ends the loop; run_graph returns None.
FallThrough ==
    /\ pc = "loop"
    /\ node_result.kind = "None"
    /\ pc' = "done"
    /\ outcome' = ReturnedNone
    /\ UNCHANGED <<projectVars, twinVars, cpGiven, dirExists, files, behaviour, runNo, node_result,
                   next_checkpoint_num, startInvoked, dispatched, resumedFrom,
                   loadable, completedPrev, writes>>

\* A truthy value that matches no case: the while loop iterates again with the
\* same node_result.
NoCaseMatches ==
    /\ pc = "loop"
    /\ node_result.kind = "other"
    /\ UNCHANGED vars

\* The process is killed.  Inside _save_checkpoint, after open and before the
\* file is closed, the file is left zero-length or cut short.
Interrupt ==
    /\ pc \in {"start", "loop", "save_dump", "call"}
    /\ pc' = "halted"
    /\ outcome' = Ended("killed", "")
    /\ IF pc = "save_dump"
       THEN \E c \in {EmptyFile, TruncatedFile} :
                files' = [files EXCEPT ![next_checkpoint_num] = c]
       ELSE files' = files
    /\ UNCHANGED <<projectVars, twinVars, cpGiven, dirExists, behaviour, runNo, node_result,
                   next_checkpoint_num, startInvoked, dispatched, resumedFrom,
                   loadable, completedPrev, writes>>

\* The directory is put back to the content it had when the run that has just
\* ended was called, so that the next run starts from an identical directory.
RestoreDirectory ==
    /\ pc = "done"
    /\ files # dirAtStart
    /\ files' = dirAtStart
    /\ UNCHANGED <<projectVars, twinVars, cpGiven, dirExists, behaviour, runNo, pc,
                   node_result, next_checkpoint_num, outcome, startInvoked,
                   dispatched, resumedFrom, loadable, completedPrev, writes>>

Next ==
    \/ Invoke
    \/ StartNode
    \/ SaveCheckpointOpen
    \/ SaveCheckpointDump
    \/ NoCheckpoint
    \/ CallNode
    \/ MatchFinalResult
    \/ MatchNodeError
    \/ FallThrough
    \/ NoCaseMatches
    \/ Interrupt

Spec == Init /\ [][Next]_vars

\* Runs of run_graph, some of them from a directory identical to the one the
\* previous run started from.
NextTwice == Next \/ RestoreDirectory

SpecTwice == Init /\ [][NextTwice]_vars

-----------------------------------------------------------------------------
\* Nested runs: the per-unit outer step and the inner unit graphs.

SymbolTypes == {"function", "class", "constant", "import"}

TestLists == {[j \in 1..k |-> j] : k \in 0..MaxTests}
MutantLists == {[j \in 1..k |-> j] : k \in 0..MaxMutants}

\* A value of the outer loop: MoveToNode(fn), FinalResult(result), NodeError(error).
Msg(text, u, detail, units) ==
    [text |-> text, unit |-> u, detail |-> detail, units |-> units]
NoMsg == Msg("", 0, "", <<>>)
OuterValue(k, fn, v) == [kind |-> k, fn |-> fn, val |-> v]
OuterEnded(k, v) == [kind |-> k, val |-> v]

\* One inner run_graph instance: its position, its node_result (kind, fn, the
\* bound test and surviving mutants), unit.tests, and how it ended.  Once the
\* run has ended only the way it ended is left of it.
Frame(u, tests) ==
    [unit |-> u, pc |-> "start", kind |-> "unset", fn |-> "", tests |-> tests,
     test |-> 0, mutants |-> <<>>, loops |-> 0, given |-> tests, reds |-> <<>>,
     out |-> [kind |-> "running", val |-> ""]]

EndedFrame(f, k, v) ==
    [Frame(f.unit, <<>>) EXCEPT !.pc = "done", !.kind = f.kind,
                                !.out = [kind |-> k, val |-> v]]

Active(e) == engines[e].pc \in {"start", "loop", "call"}

EngineIdle ==
    /\ cpGiven = FALSE
    /\ dirExists = FALSE
    /\ files = <<>>
    /\ behaviour = [n \in Steps |-> Unset]
    /\ runNo = 0
    /\ pc = "idle"
    /\ node_result = Unset
    /\ next_checkpoint_num = 1
    /\ outcome = Running
    /\ startInvoked = FALSE
    /\ dispatched = <<>>
    /\ resumedFrom = 0
    /\ loadable = {}
    /\ completedPrev = {}
    /\ writes = <<>>
    /\ dirAtStart = <<>>
    /\ prev = NoRun

\* Units as the distiller returns them and the filter of
\* phase_distillation_node keeps them; the tests of a unit come from the oracle.
DistilledQueues ==
    UNION {{[j \in 1..k |-> [id |-> j, symbol_type |-> st[j], tests |-> <<>>]] :
              st \in [1..k -> SymbolTypes]} : k \in 0..MaxUnits}

\* Units of graph2.py: they come with their tests and every unit is processed.
GivenQueues ==
    UNION {{[j \in 1..k |-> [id |-> j, symbol_type |-> "function", tests |-> ts[j]]] :
              ts \in [1..k -> TestLists]} : k \in 0..MaxUnits}

\* nodes.py: run_graph(start_project_node, working_directory, deps=deps,
\* checkpoint_dir=checkpoint_dir) has just been called on an empty directory.
\* graph2.py: the outer run has just received
\* MoveToNode(unit_orchestrator_node, state) with the queue of units.
ProjectStart ==
    /\ EngineIdle
    /\ agent = NoCall
    /\ flow = NoFlow
    /\ topology \in {"nodes", "graph2"}
    /\ IF topology = "nodes"
       THEN /\ unit_queue = <<>>
            /\ o_pc = "start"
            /\ o_result = OuterValue("unset", "", NoMsg)
       ELSE /\ unit_queue \in GivenQueues
            /\ o_pc = "loop"
            /\ o_result = OuterValue("MoveToNode", "unit_orchestrator_node", NoMsg)
    /\ finished_units = <<>>
    /\ o_outcome = OuterEnded("running", NoMsg)
    /\ o_dispatched = <<>>
    /\ at = "none"
    /\ idx = 0
    /\ engines = <<>>
    /\ o_checkpoints = <<>>
    /\ oracle_calls = <<>>

InitNested == ProjectStart /\ capped = TRUE

\* ---- the outer run_graph ----

\* What only the outer run_graph, the oracle call and Init determine.
Pinned == <<engineVars, agentVars, capped, o_checkpoints, oracle_calls, topology>>

\* The project run is given a checkpoint directory (runner.py); the runs of
\* graph2.py have no checkpointing.
OuterCheckpointDir == topology = "nodes"

\* node_result = await start_node(...): start_project_node.
OuterStart ==
    /\ o_pc = "start"
    /\ \/ /\ o_pc' = "loop"
          /\ o_result' = OuterValue("MoveToNode", "phase_specification_node", NoMsg)
          /\ o_outcome' = o_outcome
       \/ /\ o_pc' = "done"
          /\ o_result' = o_result
          /\ o_outcome' = OuterEnded("NodeFailed",
                                     Msg("Initial node failed", 0, "input raised", <<>>))
    /\ UNCHANGED <<Pinned, unit_queue,
                   finished_units, o_dispatched, at, idx, engines>>

\* case MoveToNode(fn=fn): the checkpoint is saved if a directory was given,
\* then node_result = await fn(deps=deps).
OuterCall ==
    /\ o_pc = "loop"
    /\ o_result.kind = "MoveToNode"
    /\ o_pc' = "call"
    /\ o_checkpoints' = IF OuterCheckpointDir THEN Append(o_checkpoints, o_result.fn)
                        ELSE o_checkpoints
    /\ o_dispatched' = Append(o_dispatched, o_result.fn)
    /\ at' = CASE o_result.fn = "phase_oracle_node" -> "for"
               [] o_result.fn = "unit_orchestrator_node" -> "orchestrate"
               [] OTHER -> o_result.fn
    /\ idx' = 1
    /\ UNCHANGED <<engineVars, agentVars, capped, oracle_calls, topology, unit_queue,
                   finished_units, o_result, o_outcome, engines>>

\* case FinalResult / case NodeError of the outer loop.
OuterMatch ==
    /\ o_pc = "loop"
    /\ o_result.kind \in {"FinalResult", "NodeError"}
    /\ o_pc' = "done"
    /\ o_outcome' = OuterEnded(IF o_result.kind = "FinalResult" THEN "return"
                               ELSE "NodeErrored", o_result.val)
    /\ UNCHANGED <<Pinned, unit_queue, finished_units, o_result,
                   o_dispatched, at, idx, engines>>

\* The step returns v to the outer loop.
StepReturns(v) ==
    /\ o_pc' = "loop"
    /\ o_result' = v
    /\ at' = "none"
    /\ o_outcome' = o_outcome

\* An exception leaves the step: raise NodeFailed("Node execution failed") from e.
StepRaises(e) ==
    /\ o_pc' = "done"
    /\ o_result' = o_result
    /\ at' = "none"
    /\ o_outcome' = OuterEnded("NodeFailed", Msg("Node execution failed", 0, e, <<>>))

\* ---- the phases before the per-unit step (nodes.py) ----

PhaseVars == <<Pinned, finished_units, o_dispatched, idx, engines>>

Continue(fn) == StepReturns(OuterValue("MoveToNode", fn, NoMsg))
Fail(text) == StepReturns(OuterValue("NodeError", "", Msg(text, 0, "result.error", <<>>)))

\* phase_specification_node: the analyst agent runs; no result is tested.
PhaseSpecificationNode ==
    /\ o_pc = "call"
    /\ at = "phase_specification_node"
    /\ \/ Continue("phase_e2e_builder_node")
       \/ StepRaises("agent raised")
    /\ UNCHANGED <<PhaseVars, unit_queue>>

\* phase_e2e_builder_node: run_e2e_builder, run_e2e_verification, then
\* read_text and analyze_interface, which report nothing and can only raise.
PhaseE2eBuilderNode ==
    /\ o_pc = "call"
    /\ at = "phase_e2e_builder_node"
    /\ \/ Fail("E2E builder failed")
       \/ Fail("E2E verification failed")
       \/ StepRaises("analyze_interface raised")
       \/ Continue("phase_scaffold_node")
    /\ UNCHANGED <<PhaseVars, unit_queue>>

\* phase_scaffold_node: run_scaffold, then _patch_setup_cfg_entrypoint.
PhaseScaffoldNode ==
    /\ o_pc = "call"
    /\ at = "phase_scaffold_node"
    /\ \/ Fail("Scaffolding failed")
       \/ StepRaises("read_text raised")
       \/ Continue("phase_prototyping_node")
    /\ UNCHANGED <<PhaseVars, unit_queue>>

\* Faulty variant: the prototype goes to distillation without refinement.
PrototypingSkipsRefinement ==
    /\ o_pc = "call"
    /\ at = "phase_prototyping_node"
    /\ Continue("phase_distillation_node")
    /\ UNCHANGED <<PhaseVars, unit_queue>>
\* phase_prototyping_node: run_prototyper.
PhasePrototypingNode ==
    /\ o_pc = "call"
    /\ at = "phase_prototyping_node"
    /\ \/ Fail("Prototyping failed after")
       \/ StepRaises("run_prototyper raised")
       \/ Continue("phase_refinement_node")
    /\ UNCHANGED <<PhaseVars, unit_queue>>

\* phase_refinement_node: run_refactorer.
PhaseRefinementNode ==
    /\ o_pc = "call"
    /\ at = "phase_refinement_node"
    /\ \/ Fail("Refinement failed")
       \/ StepRaises("run_refactorer raised")
       \/ Continue("phase_distillation_node")
    /\ UNCHANGED <<PhaseVars, unit_queue>>

\* phase_distillation_node: copy_prototype_to_production, run_distiller,
\* cleanup_production_code, then the filtered queue goes to phase_oracle_node.
PhaseDistillationNode ==
    /\ o_pc = "call"
    /\ at = "phase_distillation_node"
    /\ \/ /\ \/ Fail("Failed to copy prototype to production")
             \/ Fail("Distillation failed")
             \/ Fail("Cleanup failed")
             \/ StepRaises("run_distiller raised")
          /\ unit_queue' = unit_queue
       \/ /\ unit_queue' \in DistilledQueues
          /\ Continue("phase_oracle_node")
    /\ UNCHANGED PhaseVars

\* ---- phase_oracle_node (nodes.py) ----

\* Faulty variant: the loop steps over the unit after the current one.
SkipsAUnit(i) == i + 2
\* enumerate(state.unit_queue): the next iteration takes the next unit.
NextIndex(i) == i + 1

\* for i, unit in enumerate(state.unit_queue): skip a unit that is neither a
\* function nor a class; after the last unit return FinalResult.
ForNextUnit ==
    /\ o_pc = "call"
    /\ at = "for"
    /\ IF idx > Len(unit_queue)
       THEN /\ StepReturns(OuterValue("FinalResult", "",
                               Msg("Project Complete. Units:", 0, "", finished_units)))
            /\ UNCHANGED <<finished_units, idx>>
       ELSE IF unit_queue[idx].symbol_type \notin {"function", "class"}
            THEN /\ finished_units' = Append(finished_units,
                        [id |-> idx, marker |-> "Skipped", type |-> unit_queue[idx].symbol_type])
                 /\ idx' = NextIndex(idx)
                 /\ UNCHANGED <<o_pc, o_result, o_outcome, at>>
            ELSE /\ at' = "oracle"
                 /\ UNCHANGED <<o_pc, o_result, o_outcome, finished_units, idx>>
    /\ UNCHANGED <<Pinned, unit_queue, o_dispatched, engines>>

\* result = await deps.run_oracle(unit); on success the unit gets its test
\* cases and run_graph(inner_unit_start_node, unit=unit, deps=deps) is called.
\* unit.tests is the list the inner nodes pop from: the frame holds it.
RunOracle ==
    /\ o_pc = "call"
    /\ at = "oracle"
    /\ \/ /\ StepReturns(OuterValue("NodeError", "",
                             Msg("Oracle failed for", idx, "oracle error", <<>>)))
          /\ UNCHANGED <<unit_queue, engines>>
       \/ /\ StepRaises("oracle raised")
          /\ UNCHANGED <<unit_queue, engines>>
       \/ \E ts \in TestLists :
          /\ unit_queue' = unit_queue
          /\ engines' = Append(engines, Frame(idx, ts))
          /\ at' = "run_graph"
          /\ UNCHANGED <<o_pc, o_result, o_outcome>>
    /\ oracle_calls' = Append(oracle_calls, idx)
    /\ UNCHANGED <<engineVars, agentVars, capped, o_checkpoints, topology, finished_units,
                   o_dispatched, idx>>

\* Faulty variant: the inner run is started but not awaited.
InnerNotAwaited(e) == TRUE
\* await run_graph(...): the step resumes when the inner run has ended.
InnerAwaited(e) == engines[e].pc = "done"

\* Faulty variant: a unit whose inner run failed is marked and the loop goes on.
FailedUnitRecorded ==
    /\ o_pc = "call"
    /\ at = "run_graph"
    /\ topology = "nodes"
    /\ engines # <<>>
    /\ InnerAwaited(Len(engines))
    /\ finished_units' = Append(finished_units,
            [id |-> engines[Len(engines)].unit,
             marker |-> IF engines[Len(engines)].out.kind = "return" THEN "Verified"
                        ELSE "Failed",
             type |-> ""])
    /\ idx' = NextIndex(idx)
    /\ at' = "for"
    /\ UNCHANGED <<Pinned, unit_queue, o_dispatched, engines, o_pc, o_result, o_outcome>>
\* The inner run_graph of the current unit returned or raised: lines 323-329.
InnerRunEnds ==
    /\ o_pc = "call"
    /\ at = "run_graph"
    /\ topology = "nodes"
    /\ engines # <<>>
    /\ LET e == Len(engines)
           f == engines[e] IN
       /\ InnerAwaited(e)
       /\ IF f.out.kind = "NodeErrored"
          THEN /\ StepReturns(OuterValue("NodeError", "",
                       Msg("Critical failure building unit", f.unit, f.out.val, <<>>)))
               /\ UNCHANGED <<finished_units, idx>>
          ELSE IF f.out.kind = "NodeFailed"
          THEN /\ StepRaises("NodeFailed")
               /\ UNCHANGED <<finished_units, idx>>
          ELSE /\ finished_units' = Append(finished_units,
                       [id |-> f.unit, marker |-> "Verified", type |-> ""])
               /\ idx' = NextIndex(idx)
               /\ at' = "for"
               /\ UNCHANGED <<o_pc, o_result, o_outcome>>
    /\ UNCHANGED <<Pinned, unit_queue, o_dispatched, engines>>

\* ---- unit_orchestrator_node (graph2.py) ----

\* Empty queue: FinalResult.  Otherwise pop the next unit and call run_graph.
Orchestrate ==
    /\ o_pc = "call"
    /\ at = "orchestrate"
    /\ IF unit_queue = <<>>
       THEN /\ StepReturns(OuterValue("FinalResult", "",
                               Msg("Project Complete. Units:", 0, "", finished_units)))
            /\ UNCHANGED <<unit_queue, engines>>
       ELSE /\ unit_queue' = Tail(unit_queue)
            /\ engines' = Append(engines, Frame(Head(unit_queue).id, Head(unit_queue).tests))
            /\ at' = "run_graph"
            /\ UNCHANGED <<o_pc, o_result, o_outcome>>
    /\ UNCHANGED <<Pinned, finished_units, o_dispatched, idx>>

\* The inner run returned: loop back to self; (NodeErrored, NodeFailed) both
\* become NodeError.
OrchestratedRunEnds ==
    /\ o_pc = "call"
    /\ at = "run_graph"
    /\ topology = "graph2"
    /\ engines # <<>>
    /\ LET e == Len(engines)
           f == engines[e] IN
       /\ InnerAwaited(e)
       /\ IF f.out.kind \in {"NodeErrored", "NodeFailed"}
          THEN /\ StepReturns(OuterValue("NodeError", "",
                       Msg("Critical failure building unit", f.unit, f.out.val, <<>>)))
               /\ UNCHANGED finished_units
          ELSE /\ finished_units' = Append(finished_units,
                       [id |-> f.unit, marker |-> "Verified", type |-> ""])
               /\ StepReturns(OuterValue("MoveToNode", "unit_orchestrator_node", NoMsg))
    /\ UNCHANGED <<Pinned, unit_queue, o_dispatched, idx, engines>>

\* ---- the inner run_graph (no checkpoint_dir) and the inner nodes ----

InnerFrame == <<Pinned, unit_queue, finished_units, o_pc,
                o_result, o_outcome, o_dispatched, at, idx>>

Put(e, f) == engines' = [engines EXCEPT ![e] = f]

MoveTo(f, fn) == [f EXCEPT !.pc = "loop", !.kind = "MoveToNode", !.fn = fn]
\* A step sends the run back to a node it has already been through.
LoopTo(f, fn) == [MoveTo(f, fn) EXCEPT !.loops = IF capped THEN f.loops + 1 ELSE 0]
\* No node counts how often the run has come back to it: going back is always
\* possible.  With capped, executions are cut off after MaxLoops returns.
MayLoop(f) == ~capped \/ f.loops < MaxLoops
InnerError(f, err) == [f EXCEPT !.pc = "loop", !.kind = "NodeError", !.fn = err]
InnerFinal(f) == [f EXCEPT !.pc = "loop", !.kind = "FinalResult", !.fn = "unit.code"]
InnerRaise(f, e) == EndedFrame(f, "NodeFailed", e)

Calling(e, fn) == engines[e].pc = "call" /\ engines[e].fn = fn

\* node_result = await start_node(...): inner_unit_start_node.
InnerStart(e) ==
    /\ engines[e].pc = "start"
    /\ Put(e, MoveTo(engines[e], "ratchet_iterator_node"))
    /\ UNCHANGED InnerFrame

\* Faulty variant: the inner run is given the checkpoint directory of the project.
InnerSharesCheckpointDir == TRUE
\* run_graph(inner_unit_start_node, unit=unit, deps=deps): no checkpoint_dir.
InnerCheckpointDir == FALSE

\* case MoveToNode(fn=fn) of the inner run; checkpoint_path is None.
InnerCall(e) ==
    /\ engines[e].pc = "loop"
    /\ engines[e].kind = "MoveToNode"
    /\ Put(e, [engines[e] EXCEPT !.pc = "call",
                                  !.reds = IF engines[e].fn = "ratchet_red_node"
                                           THEN Append(@, engines[e].test) ELSE @])
    /\ o_checkpoints' = IF InnerCheckpointDir THEN Append(o_checkpoints, engines[e].fn)
                        ELSE o_checkpoints
    /\ UNCHANGED <<engineVars, agentVars, capped, oracle_calls, topology, unit_queue,
                   finished_units, o_pc, o_result, o_outcome, o_dispatched, at, idx>>

\* case FinalResult: return res; case NodeError: raise NodeErrored(err).
InnerMatch(e) ==
    /\ engines[e].pc = "loop"
    /\ engines[e].kind \in {"FinalResult", "NodeError"}
    /\ Put(e, EndedFrame(engines[e],
                          IF engines[e].kind = "FinalResult" THEN "return"
                          ELSE "NodeErrored",
                          engines[e].fn))
    /\ UNCHANGED InnerFrame

\* Faulty variant: pop() takes the last pending test.
PopLast(tests) ==
    [test |-> tests[Len(tests)], rest |-> SubSeq(tests, 1, Len(tests) - 1)]
\* unit.tests.pop(0): the first pending test and the tests left.
PopFirst(tests) == [test |-> Head(tests), rest |-> Tail(tests)]

\* ratchet_iterator_node (the same in nodes.py and graph2.py).
RatchetIteratorNode(e) ==
    /\ Calling(e, "ratchet_iterator_node")
    /\ LET f == engines[e] IN
       IF f.tests = <<>>
       THEN Put(e, MoveTo(f, "crucible_mutation_node"))
       ELSE Put(e, [MoveTo(f, "ratchet_red_node") EXCEPT
                      !.test = PopFirst(f.tests).test, !.tests = PopFirst(f.tests).rest])
    /\ UNCHANGED InnerFrame

\* ratchet_red_node, nodes.py: deps.run_ratchet_red fails, succeeds, or
\* succeeds with skipped_green.
RatchetRedNode(e) ==
    /\ topology = "nodes"
    /\ Calling(e, "ratchet_red_node")
    /\ LET f == engines[e] IN
       \/ Put(e, InnerError(f, "Red phase failed"))
       \/ Put(e, MoveTo(f, "ratchet_iterator_node"))
       \/ Put(e, MoveTo(f, "ratchet_green_node"))
       \/ Put(e, InnerRaise(f, "run_ratchet_red raised"))
    /\ UNCHANGED InnerFrame

\* ratchet_green_node, nodes.py.
RatchetGreenNode(e) ==
    /\ topology = "nodes"
    /\ Calling(e, "ratchet_green_node")
    /\ LET f == engines[e] IN
       \/ Put(e, InnerError(f, "Green phase failed"))
       \/ Put(e, MoveTo(f, "ratchet_iterator_node"))
       \/ Put(e, InnerRaise(f, "run_ratchet_green raised"))
    /\ UNCHANGED InnerFrame

\* crucible_mutation_node, nodes.py: failure, score < 1.0 with the surviving
\* mutants bound to the sentinel node, or a perfect score.
CrucibleMutationNode(e) ==
    /\ topology = "nodes"
    /\ Calling(e, "crucible_mutation_node")
    /\ LET f == engines[e] IN
       \/ Put(e, InnerError(f, "Mutation testing failed"))
       \/ /\ MayLoop(f)
          /\ \E ms \in MutantLists :
                Put(e, [LoopTo(f, "crucible_sentinel_node") EXCEPT !.mutants = ms])
       \/ Put(e, MoveTo(f, "crucible_optimization_node"))
       \/ Put(e, InnerRaise(f, "run_mutation_testing raised"))
    /\ UNCHANGED InnerFrame

\* crucible_sentinel_node, nodes.py.
CrucibleSentinelNode(e) ==
    /\ topology = "nodes"
    /\ Calling(e, "crucible_sentinel_node")
    /\ LET f == engines[e] IN
       IF f.mutants = <<>>
       THEN Put(e, MoveTo(f, "crucible_mutation_node"))
       ELSE \/ Put(e, InnerError(f, "Failed to kill mutant"))
            \/ Put(e, InnerError(f, "Sentinel test failed to kill mutant"))
            \/ Put(e, InnerRaise(f, "run_sentinel raised"))
            \/ IF Tail(f.mutants) # <<>>
               THEN Put(e, [MoveTo(f, "crucible_sentinel_node") EXCEPT
                              !.mutants = Tail(f.mutants)])
               ELSE Put(e, [MoveTo(f, "crucible_mutation_node") EXCEPT
                              !.mutants = <<>>])
    /\ UNCHANGED InnerFrame

\* crucible_optimization_node (the same in nodes.py and graph2.py).
CrucibleOptimizationNode(e) ==
    /\ Calling(e, "crucible_optimization_node")
    /\ LET f == engines[e] IN
       \/ /\ MayLoop(f)
          /\ Put(e, LoopTo(f, "crucible_optimization_node"))
       \/ Put(e, InnerFinal(f))
       \/ Put(e, InnerRaise(f, "agent_optimizer raised"))
    /\ UNCHANGED InnerFrame

\* ratchet_red_node and ratchet_green_node of graph2.py: a failed check
\* dispatches the same node again.
RetryingRatchetNode(e) ==
    /\ topology = "graph2"
    /\ engines[e].pc = "call"
    /\ engines[e].fn \in {"ratchet_red_node", "ratchet_green_node"}
    /\ LET f == engines[e] IN
       \/ /\ MayLoop(f)
          /\ Put(e, LoopTo(f, f.fn))
       \/ Put(e, MoveTo(f, IF f.fn = "ratchet_red_node" THEN "ratchet_green_node"
                           ELSE "ratchet_iterator_node"))
       \/ Put(e, InnerRaise(f, "agent raised"))
    /\ UNCHANGED InnerFrame

\* crucible_mutation_node and crucible_sentinel_node of graph2.py.
RetryingCrucibleNode(e) ==
    /\ topology = "graph2"
    /\ engines[e].pc = "call"
    /\ engines[e].fn \in {"crucible_mutation_node", "crucible_sentinel_node"}
    /\ LET f == engines[e] IN
       IF f.fn = "crucible_mutation_node"
       THEN \/ /\ MayLoop(f)
               /\ Put(e, LoopTo(f, "crucible_sentinel_node"))
            \/ Put(e, MoveTo(f, "crucible_optimization_node"))
            \/ Put(e, InnerRaise(f, "process_mutation_testing raised"))
       ELSE \/ /\ MayLoop(f)
               /\ Put(e, LoopTo(f, "crucible_sentinel_node"))
            \/ Put(e, MoveTo(f, "crucible_mutation_node"))
            \/ Put(e, InnerRaise(f, "agent_sentinel raised"))
    /\ UNCHANGED InnerFrame

\* The steps of breakfix/nodes.py and of the run_graph instances that run them.
NextNodes ==
    \/ OuterStart
    \/ OuterCall
    \/ OuterMatch
    \/ PhaseSpecificationNode
    \/ PhaseE2eBuilderNode
    \/ PhaseScaffoldNode
    \/ PhasePrototypingNode
    \/ PhaseRefinementNode
    \/ PhaseDistillationNode
    \/ ForNextUnit
    \/ RunOracle
    \/ InnerRunEnds
    \/ \E e \in DOMAIN engines : InnerStart(e)
    \/ \E e \in DOMAIN engines : InnerCall(e)
    \/ \E e \in DOMAIN engines : InnerMatch(e)
    \/ \E e \in DOMAIN engines : RatchetIteratorNode(e)
    \/ \E e \in DOMAIN engines : RatchetRedNode(e)
    \/ \E e \in DOMAIN engines : RatchetGreenNode(e)
    \/ \E e \in DOMAIN engines : CrucibleMutationNode(e)
    \/ \E e \in DOMAIN engines : CrucibleSentinelNode(e)
    \/ \E e \in DOMAIN engines : CrucibleOptimizationNode(e)

\* The steps only graph/graph2.py has.
NextGraph2 ==
    \/ Orchestrate
    \/ OrchestratedRunEnds
    \/ \E e \in DOMAIN engines : RetryingRatchetNode(e)
    \/ \E e \in DOMAIN engines : RetryingCrucibleNode(e)

NextNested == NextNodes \/ NextGraph2

SpecNested == InitNested /\ [][NextNested]_vars

\* The project of nodes.py with no cut-off, every awaited call returning: the
\* event loop runs the one coroutine that is ready, so a step that can be taken
\* is taken.
InitUncapped == ProjectStart /\ topology = "nodes" /\ capped = FALSE

SpecNodesFair == InitUncapped /\ [][NextNodes]_vars /\ WF_vars(NextNodes)

-----------------------------------------------------------------------------
\* The result of one uninterrupted run of run_graph on the initial (empty or
\* absent) directory, with the collaborators as they have behaved so far.
RECURSIVE UninterruptedFrom(_)
UninterruptedFrom(v) ==
    CASE v.kind = "unset" -> Ended("unknown", "")
      [] v.kind = "FinalResult" -> Ended("return", v.val)
      [] v.kind = "NodeError" -> Ended("NodeErrored", v.val)
      [] v.kind = "raise" -> Ended("NodeFailed", v.val)
      [] v.kind = "None" -> Ended("return", "None")
      [] v.kind = "other" -> Ended("loops", "")
      [] v.kind = "MoveToNode" ->
            IF cpGiven /\ ~dirExists THEN Ended("escaped", "FileNotFoundError")
            ELSE IF cpGiven /\ ~v.picklable THEN Ended("escaped", "PicklingError")
            ELSE UninterruptedFrom(behaviour[v.node])

Uninterrupted == UninterruptedFrom(behaviour[0])

\* The step the current run is executing.
CurrentStep == IF pc = "start" THEN 0 ELSE node_result.node

-----------------------------------------------------------------------------
\* C1: once the current value of the loop is a FinalResult, run_graph returns
\* that result's payload and this run calls no further step.
C1_FinalResultEndsRun ==
    [][(pc = "loop" /\ node_result.kind = "FinalResult") =>
          /\ pc' \in {"done", "halted"}
          /\ dispatched' = dispatched
          /\ startInvoked' = startInvoked
          /\ (pc' = "done" => outcome' = Ended("return", node_result.val))]_vars

C1_Witness ==
    /\ pc = "done"
    /\ node_result.kind = "FinalResult"
    /\ outcome = Ended("return", "42")
    /\ Len(dispatched) >= 1

\* C2: when the start step or a dispatched step returns NodeError(m),
\* run_graph raises NodeErrored with message exactly m and calls no further step.
C2_NodeErrorRaisesNodeErrored ==
    [][(pc = "loop" /\ node_result.kind = "NodeError") =>
          /\ pc' \in {"done", "halted"}
          /\ dispatched' = dispatched
          /\ startInvoked' = startInvoked
          /\ (pc' = "done" => outcome' = Ended("NodeErrored", node_result.val))]_vars

C2_Witness ==
    /\ pc = "done"
    /\ node_result = NodeError("bad")
    /\ outcome = Ended("NodeErrored", "bad")
    /\ dispatched = <<1>>

\* C3: an exception raised by the start step or by a dispatched step makes
\* run_graph raise NodeFailed with that exception as its cause, and the run
\* calls no later step.
C3_ExceptionRaisesNodeFailed ==
    [][(/\ pc \in {"start", "call"}
        /\ pc' # "halted"
        /\ behaviour'[CurrentStep].kind = "raise") =>
          /\ pc' = "done"
          /\ outcome' = Ended("NodeFailed", behaviour'[CurrentStep].val)]_vars

C3_Witness ==
    /\ pc = "done"
    /\ outcome = Ended("NodeFailed", "KeyError")
    /\ dispatched = <<1, 2>>
    /\ behaviour[2] = Raises("KeyError")

\* C4: with checkpointing enabled, while a step dispatched from the loop is
\* executing, the highest-numbered file of the directory holds exactly the
\* MoveToNode being executed.
C4_CheckpointHoldsExecutingNode ==
    (cpGiven /\ pc = "call") =>
        /\ DOMAIN files # {}
        /\ files[Max(DOMAIN files)] = [state |-> "ok", obj |-> node_result]

C4_Witness ==
    /\ cpGiven
    /\ pc = "call"
    /\ resumedFrom # 0
    /\ Len(dispatched) >= 1
    /\ Max(DOMAIN files) >= 4

\* C5: checkpoint files are written under the numbers 1, 2, 3, ... in write
\* order, over all runs on the directory, and no write targets a number whose
\* file already exists.
C5_NumbersIncreaseNeverOverwritten ==
    \A i \in DOMAIN writes : writes[i].num = i /\ ~writes[i].existed

\* C6: a run that starts on a directory holding a loadable checkpoint does not
\* invoke the start step, processes the payload of the highest-numbered
\* checkpoint first, and never dispatches the payload of a lower-numbered one.
C6_ResumesFromHighestCheckpoint ==
    (loadable # {} /\ pc \in {"start", "loop", "save_dump", "call", "done", "halted"}) =>
        LET last == files[Max(loadable)].obj IN
        /\ ~startInvoked
        /\ pc # "start"
        /\ (dispatched = <<>> /\ pc \in {"loop", "save_dump", "call"} => node_result = last)
        /\ (dispatched # <<>> => dispatched[1] = last.node)
        /\ \A k \in loadable : \A i \in DOMAIN dispatched :
              files[k].obj.node # last.node => dispatched[i] # files[k].obj.node

C6_Witness ==
    /\ Cardinality(loadable) >= 2
    /\ \E k \in loadable : files[k].obj.node # files[Max(loadable)].obj.node
    /\ Len(dispatched) >= 2
    /\ pc = "done"

\* C7: replay equivalence: whatever the interruptions, a run on the same
\* directory that completes ends like an uninterrupted run: same terminal
\* value, or same failure kind.
C7_ReplayEquivalence ==
    (pc = "done" /\ Uninterrupted.kind # "unknown") =>
        /\ outcome.kind = Uninterrupted.kind
        /\ (outcome.kind = "return" => outcome.val = Uninterrupted.val)

C9_OnlyNodeFailedOrNodeErrored ==
    pc = "done" => outcome.kind \in {"return", "NodeErrored", "NodeFailed"}

\* C10: while an inner unit run started by the per-unit outer step is active,
\* the outer engine dispatches nothing (it is inside that step, waiting for
\* that run) and no other inner run is active; every inner run the outer step
\* has moved past has returned a FinalResult payload or raised.
C10_InnerRunsToCompletionFirst ==
    \A e \in DOMAIN engines :
        /\ Active(e) =>
              /\ o_pc = "call"
              /\ at = "run_graph"
              /\ e = Len(engines)
              /\ \A d \in DOMAIN engines : Active(d) => d = e
        /\ (e < Len(engines) \/ at # "run_graph") =>
              /\ engines[e].pc = "done"
              /\ engines[e].out.kind \in {"return", "NodeErrored", "NodeFailed"}
              /\ (engines[e].out.kind = "return" => engines[e].kind = "FinalResult")

C10_Witness ==
    /\ Len(engines) = 2
    /\ engines[1].out.kind = "return"
    /\ Active(2)
    /\ engines[2].fn = "ratchet_green_node"
    /\ engines[2].pc = "call"

\* C12 (as stated): whenever the current value of the loop is none of
\* MoveToNode, FinalResult and NodeError, run_graph can leave the loop and
\* return without a result.
C12_FallsThroughSilently ==
    (pc = "loop" /\ node_result.kind \in {"None", "other"}) =>
        ENABLED (pc' = "done" /\ outcome' = Ended("return", "None") /\ Next)

\* C12 (amended): a falsy value outside the three variants (None) ends the run,
\* which returns None, raises nothing and calls no further step; a truthy one
\* never ends it: the loop iterates on the same value until the process is killed.
C12_OnlyFalsyFallsThrough ==
    [][(pc = "loop" /\ node_result.kind \in {"None", "other"}) =>
          /\ dispatched' = dispatched
          /\ files' = files
          /\ IF node_result.kind = "None"
             THEN /\ pc' \in {"done", "halted"}
                  /\ (pc' = "done" => outcome' = Ended("return", "None"))
             ELSE pc' = "halted"]_vars

C12_Witness ==
    /\ pc = "done"
    /\ node_result.kind = "None"
    /\ outcome = Ended("return", "None")
    /\ Len(dispatched) >= 1

\* C13: when run_graph is called without checkpoint_dir, no checkpoint file is
\* opened or written at any point of any execution, however many continuations
\* are dispatched.
C13_NoDirectoryNoFile ==
    ~cpGiven => (files = <<>> /\ writes = <<>>)

C13_Witness ==
    /\ ~cpGiven
    /\ pc = "done"
    /\ outcome = Ended("return", "42")
    /\ Len(dispatched) >= 2
    /\ runNo >= 2
    /\ files = <<>>

\* C14 (as stated): with checkpointing enabled, when a run ends on the
\* FinalResult or NodeError a step produced, the highest-numbered checkpoint
\* holds that result.
C14_EveryVariantIsCheckpointed ==
    (/\ cpGiven
     /\ dirExists
     /\ pc = "done"
     /\ outcome.kind \in {"return", "NodeErrored"}
     /\ node_result.kind \in {"FinalResult", "NodeError"}) =>
        /\ Loaded(files) # {}
        /\ files[Max(Loaded(files))].obj = node_result

\* C14 (amended): only MoveToNode values are written; a FinalResult or a
\* NodeError is never written, so after a step of this run has produced one, the
\* highest-numbered checkpoint still holds the MoveToNode of that step.
C14_OnlyMoveToNodeIsCheckpointed ==
    /\ \A k \in Loaded(files) : files[k].obj.kind = "MoveToNode"
    /\ (/\ cpGiven
        /\ pc \in {"loop", "done"}
        /\ node_result.kind \in {"FinalResult", "NodeError"}
        /\ dispatched # <<>>) =>
           /\ Loaded(files) # {}
           /\ Max(Loaded(files)) = Max(DOMAIN files)
           /\ files[Max(Loaded(files))].obj.node = dispatched[Len(dispatched)]

C14_Witness ==
    /\ cpGiven
    /\ pc = "done"
    /\ outcome = Ended("return", "42")
    /\ Len(dispatched) = 2
    /\ DOMAIN files = {1, 2}
    /\ files[2].obj = [kind |-> "MoveToNode", node |-> 2, val |-> "",
                        picklable |-> TRUE]

\* C16: two executions of run_graph that start from identical checkpoint
\* directories (empty, absent, or with the same files) and both end, with the
\* collaborators answering as before, call the start step alike, dispatch the
\* same sequence of steps and end with the same value or the same failure.
C16_Determinism ==
    (pc = "done" /\ prev.valid /\ prev.dir = dirAtStart) =>
        /\ startInvoked = prev.startInvoked
        /\ dispatched = prev.dispatched
        /\ outcome = prev.outcome

C16_Witness ==
    /\ pc = "done"
    /\ prev.valid
    /\ prev.dir = dirAtStart
    /\ Cardinality(Loaded(dirAtStart)) >= 2
    /\ Len(dispatched) >= 2
    /\ outcome = Ended("return", "7")

\* C15: in a fresh project run with checkpointing enabled, the checkpoint files
\* are exactly the MoveToNode values the outer run has dispatched, one file per
\* dispatch: the retries inside a step and the dispatches of the inner unit
\* runs write no file.
C15_OneCheckpointPerOuterDispatch ==
    topology = "nodes" => o_checkpoints = o_dispatched

C15_Witness ==
    /\ topology = "nodes"
    /\ Len(o_checkpoints) = 7
    /\ Len(engines) >= 2
    /\ engines[Len(engines)].pc = "call"
    /\ engines[Len(engines)].fn = "crucible_sentinel_node"

\* C20: the outer run of nodes.py dispatches specification, harness build,
\* scaffold, prototyping, refinement, distillation and the per-unit step in
\* this order, each at most once and none skipped; once a phase has returned
\* NodeError for a failure its collaborator reported, that phase stays the last
\* one dispatched and the run ends with NodeErrored carrying that message.
C20_PhasesInOrder ==
    topology = "nodes" =>
      LET order == <<"phase_specification_node", "phase_e2e_builder_node",
                     "phase_scaffold_node", "phase_prototyping_node",
                     "phase_refinement_node", "phase_distillation_node",
                     "phase_oracle_node">>
          failing == [t \in {"E2E builder failed", "E2E verification failed",
                            "Scaffolding failed", "Prototyping failed after",
                            "Refinement failed",
                            "Failed to copy prototype to production",
                            "Distillation failed", "Cleanup failed",
                            "Oracle failed for", "Critical failure building unit"} |->
                        CASE t \in {"E2E builder failed", "E2E verification failed"} -> 2
                          [] t = "Scaffolding failed" -> 3
                          [] t = "Prototyping failed after" -> 4
                          [] t = "Refinement failed" -> 5
                          [] t \in {"Oracle failed for",
                                    "Critical failure building unit"} -> 7
                          [] OTHER -> 6]
      IN /\ Len(o_dispatched) <= Len(order)
         /\ \A i \in DOMAIN o_dispatched : o_dispatched[i] = order[i]
         /\ (o_pc = "call" => o_dispatched # <<>>)
         /\ o_result.kind = "NodeError" =>
              /\ o_result.val.text \in DOMAIN failing
              /\ Len(o_dispatched) = failing[o_result.val.text]
              /\ o_pc \in {"loop", "done"}
              /\ (o_pc = "done" => o_outcome = [kind |-> "NodeErrored",
                                                val |-> o_result.val])

C20_Witness ==
    /\ topology = "nodes"
    /\ o_pc = "done"
    /\ o_outcome.kind = "NodeErrored"
    /\ o_outcome.val.text = "Cleanup failed"
    /\ Len(o_dispatched) = 6

\* C17: the units are taken in queue order, one at a time: the finished
\* markers, the oracle calls and the inner runs each follow the order of the
\* queue without repetition, and when the oracle is called or the inner run is
\* started for a unit, every unit before it has its finished or skipped marker
\* and every earlier inner run has ended.
C17_UnitsInListOrder ==
    /\ \A j \in DOMAIN finished_units : finished_units[j].id = j
    /\ \A j \in DOMAIN oracle_calls :
          /\ j > 1 => oracle_calls[j - 1] < oracle_calls[j]
          /\ oracle_calls[j] - 1 <= Len(finished_units)
    /\ \A e \in DOMAIN engines :
          /\ e > 1 => /\ engines[e - 1].unit < engines[e].unit
                      /\ engines[e - 1].pc = "done"
          /\ engines[e].unit - 1 <= Len(finished_units)
          /\ engines[e].pc # "done" => Len(finished_units) = engines[e].unit - 1
    /\ at = "oracle" => Len(finished_units) = idx - 1

C17_Witness ==
    /\ topology = "nodes"
    /\ Len(finished_units) = 3
    /\ finished_units[1].marker = "Verified"
    /\ finished_units[2].marker = "Skipped"
    /\ finished_units[3].marker = "Verified"
    /\ oracle_calls = <<1, 3>>
    /\ o_pc = "done"

\* C18: in an inner unit run of nodes.py the test cases handed to ratchet_red
\* so far are an initial part of the unit's test list, in list order and each
\* once; whenever a crucible node is the current node, no test is pending and
\* every test of the list has been through ratchet_red.
C18_TestsInListOrder ==
    topology = "nodes" =>
      \A e \in DOMAIN engines :
        LET f == engines[e] IN
        f.pc # "done" =>
          /\ Len(f.reds) <= Len(f.given)
          /\ \A i \in DOMAIN f.reds : f.reds[i] = f.given[i]
          /\ Len(f.reds) + Len(f.tests)
               + (IF f.pc = "loop" /\ f.fn = "ratchet_red_node" THEN 1 ELSE 0)
                 = Len(f.given)
          /\ (f.fn \in {"crucible_mutation_node", "crucible_sentinel_node",
                        "crucible_optimization_node"}) =>
                (f.tests = <<>> /\ f.reds = f.given)

C18_Witness ==
    /\ topology = "nodes"
    /\ \E e \in DOMAIN engines :
         /\ engines[e].pc = "call"
         /\ engines[e].fn = "crucible_mutation_node"
         /\ engines[e].loops = 0
         /\ engines[e].given = <<1, 2>>
         /\ engines[e].reds = <<1, 2>>

\* C19: once the oracle has failed for a unit, or the inner run of a unit has
\* raised NodeErrored or NodeFailed, that unit is the last one the oracle was
\* called for and the last one with an inner run, the per-unit step does not
\* go on, and the outer run ends with NodeErrored or NodeFailed, never with the
\* final result.
C19_FailureStopsTheQueue ==
    /\ \A e \in DOMAIN engines :
         engines[e].out.kind \in {"NodeErrored", "NodeFailed"} =>
           /\ e = Len(engines)
           /\ \A j \in DOMAIN oracle_calls : oracle_calls[j] <= engines[e].unit
           /\ \A j \in DOMAIN finished_units : finished_units[j].id < engines[e].unit
           /\ at \in {"run_graph", "none"}
           /\ at = "none" =>
                /\ o_pc \in {"loop", "done"}
                /\ (o_pc = "loop" => o_result.kind = "NodeError")
                /\ (o_pc = "done" => o_outcome.kind \in {"NodeErrored", "NodeFailed"})
    /\ (o_result.kind = "NodeError" /\ o_result.val.text = "Oracle failed for") =>
           /\ oracle_calls # <<>>
           /\ oracle_calls[Len(oracle_calls)] = o_result.val.unit
           /\ \A e \in DOMAIN engines : engines[e].unit < o_result.val.unit
           /\ \A j \in DOMAIN finished_units : finished_units[j].id < o_result.val.unit
           /\ o_pc \in {"loop", "done"}
           /\ (o_pc = "done" => o_outcome.kind = "NodeErrored")

C19_Witness ==
    /\ o_pc = "done"
    /\ Len(engines) = 2
    /\ engines[2].out.kind = "NodeErrored"
    /\ Len(unit_queue) = 3
    /\ o_outcome.kind = "NodeErrored"
    /\ o_outcome.val.text = "Critical failure building unit"
    /\ Len(finished_units) = 1

\* C11: every inner unit run of nodes.py that has started eventually ends (it
\* returns its FinalResult or raises), provided every step that is called
\* returns.
C11_InnerRunEventuallyEnds ==
    \A e \in 1..MaxUnits :
        (topology = "nodes" /\ e \in DOMAIN engines /\ engines[e].pc # "done")
            ~> (e \in DOMAIN engines /\ engines[e].pc = "done")

-----------------------------------------------------------------------------
\* The retry loops of the agents (src/breakfix/agents) and the nodes of
\* nodes.py that await them.  One call of a node is followed from the call of
\* the agent function to the case of run_graph that matches what the node
\* returns.

\* Test ids a test inventory can hold, versions of an edited file other than
\* its test functions, and line numbers of the unit's module.
MaxIds == 2
MaxEdits == 1
MaxLine == 2

MAX_RATCHET_RED_RETRIES == 3
MAX_RATCHET_GREEN_RETRIES == 5
MAX_SENTINEL_RETRIES == 3
MAX_PROTOTYPER_ITERATIONS == 5

\* What the agents can edit under production/: the expected test file exists,
\* the test ids pytest collects, and the rest of the edited text (the unit's
\* module for the developer, the test file's other text for the sentinel).
Workspaces == [file : BOOLEAN, tests : SUBSET (1..MaxIds), code : 0..MaxEdits]

\* coverage_data is None: no coverage.json was produced.
NoCoverage == [data |-> FALSE, files |-> <<>>]

\* What the checks of the current attempt have reported so far.
NoAtt == [valid |-> "?", pytest |-> "?", decision |-> "?", cov |-> NoCoverage,
          killed |-> "?", clean |-> "?",
          rerun |-> [raises |-> FALSE, success |-> FALSE, surviving_mutants |-> <<>>],
          error |-> ""]

\* RatchetRedResult, RatchetGreenResult, SentinelResult, PrototyperResult.
NoResult == [set |-> FALSE, success |-> FALSE, retries |-> 0, test |-> 0,
             skipped_green |-> FALSE, iterations |-> 0, error |-> ""]
Failure(retries, error) ==
    [NoResult EXCEPT !.set = TRUE, !.retries = retries, !.error = error]
Success(retries) == [NoResult EXCEPT !.set = TRUE, !.success = TRUE, !.retries = retries]

NoRet == [kind |-> "unset", fn |-> "", mutants |-> <<>>]
NodeReturn(kind, fn, ms) == [kind |-> kind, fn |-> fn, mutants |-> ms]

\* A node has just called fn with max_retries, on workspace w, for a unit
\* spanning lines lo..hi and (sentinel) the surviving mutants ms.
AgentCall(fn, max, w, lo, hi, ms) ==
    [fn |-> fn, pc |-> "start", max_retries |-> max, retries |-> 0,
     checkpoint_id |-> FALSE, ws |-> w, before |-> w, existing |-> w,
     attempts |-> 0, queries |-> 0, e2e_runs |-> 0, iteration |-> 0,
     reviews |-> 0, passes |-> 0,
     prompt |-> "base_prompt", att |-> NoAtt, result |-> NoResult,
     ret |-> NoRet, ended |-> "running",
     line_number |-> lo, end_line_number |-> hi, mutants |-> ms]

Returns(a, r) == [a EXCEPT !.pc = "returned", !.result = r]

\* if checkpoint_id: await client.rewind_files(checkpoint_id)
Rewound(a) == IF a.checkpoint_id THEN a.before ELSE a.ws

AgentFrame == <<engineVars, nestedVars, flow>>

\* ---- run_ratchet_red ----

\* new_tests = tests_after - tests_before
NewTests(a) == a.ws.tests \ a.before.tests

\* Faulty variant: a test is accepted without the review of validate_test.
RedVerdictUnvalidated(a, valid, passed, keep) ==
    IF ~a.ws.file THEN "no_file"
    ELSE IF Cardinality(NewTests(a)) # 1 THEN "count"
    ELSE IF passed
         THEN IF a.retries >= 1 THEN (IF keep THEN "keep" ELSE "discard")
              ELSE "passed"
    ELSE "accept"

\* The checks run on an attempt, in the order of the code, given what
\* validate_test, run_pytest and arbitrate_test report.
RedVerdict(a, valid, passed, keep) ==
    IF ~a.ws.file THEN "no_file"
    ELSE IF Cardinality(NewTests(a)) # 1 THEN "count"
    ELSE IF ~valid THEN "invalid"
    ELSE IF passed
         THEN IF a.retries >= 1 THEN (IF keep THEN "keep" ELSE "discard")
              ELSE "passed"
    ELSE "accept"

RedAtt(v, valid) ==
    [NoAtt EXCEPT
       !.valid = IF v \in {"no_file", "count"} THEN "?"
                 ELSE IF valid THEN "yes" ELSE "no",
       !.pytest = IF v \in {"no_file", "count", "invalid"} THEN "?"
                  ELSE IF v = "accept" THEN "failed" ELSE "passed",
       !.decision = IF v \in {"keep", "discard"} THEN v ELSE "?"]

\* Faulty variant: a discarded test sends the tester back to work.
RedDiscardRetries(a) ==
    IF a.retries + 1 < a.max_retries
    THEN [a EXCEPT !.ws = Rewound(a), !.retries = @ + 1, !.pc = "loop",
                   !.prompt = "Test passed but should fail"]
    ELSE Returns([a EXCEPT !.ws = Rewound(a), !.retries = @ + 1],
                  Failure(a.retries + 1, "Test passed but should fail"))

\* The arbiter discards the test: rewind, "not a failure, just skipped".
RedDiscard(a) ==
    Returns([a EXCEPT !.ws = Rewound(a)],
             [Success(a.retries) EXCEPT !.skipped_green = TRUE])

\* Faulty variant: the rejected attempts are not counted.
RejectAttemptUncounted(a, error) ==
    IF a.retries + 1 < a.max_retries
    THEN [a EXCEPT !.ws = Rewound(a), !.pc = "loop", !.prompt = error]
    ELSE Returns([a EXCEPT !.ws = Rewound(a)], Failure(a.retries, error))

\* A check rejects the attempt: rewind, retries += 1, then retry with the
\* error in the prompt or give up.
RejectAttempt(a, error) ==
    IF a.retries + 1 < a.max_retries
    THEN [a EXCEPT !.ws = Rewound(a), !.retries = @ + 1, !.pc = "loop",
                   !.prompt = error]
    ELSE Returns([a EXCEPT !.ws = Rewound(a), !.retries = @ + 1],
                  Failure(a.retries + 1, error))

\* except Exception inside the while loop: retries += 1, no rewind.
RetryAfterException(a) ==
    IF a.retries + 1 >= a.max_retries
    THEN Returns([a EXCEPT !.retries = @ + 1], Failure(a.retries + 1, "exception"))
    ELSE [a EXCEPT !.retries = @ + 1, !.pc = "loop", !.prompt = "exception"]

\* while retries < max_retries: tests_before = get_test_inventory(tests_dir);
\* await client.query(prompt).  After the loop: "Max retries exceeded".
RedQuery ==
    /\ agent.fn = "run_ratchet_red"
    /\ agent.pc \in {"start", "loop"}
    /\ agent' = IF agent.retries < agent.max_retries
                THEN [agent EXCEPT !.pc = "receive", !.checkpoint_id = FALSE,
                                   !.before = agent.ws, !.att = NoAtt,
                                   !.queries = @ + 1]
                ELSE Returns(agent, Failure(agent.retries, "Max retries exceeded"))
    /\ UNCHANGED AgentFrame

\* async for message in client.receive_response(): the tester edits files
\* under tests/, the first UserMessage with a uuid is the checkpoint, a
\* ResultMessage with is_error raises.
RedReceive ==
    /\ agent.fn = "run_ratchet_red"
    /\ agent.pc = "receive"
    /\ \E f \in BOOLEAN, ts \in SUBSET (1..MaxIds), ck \in BOOLEAN, err \in BOOLEAN :
         LET a == [agent EXCEPT !.ws = [@ EXCEPT !.file = f, !.tests = ts],
                                !.checkpoint_id = ck, !.attempts = @ + 1]
         IN agent' = IF err THEN RetryAfterException(a)
                     ELSE [a EXCEPT !.pc = "verify"]
    /\ UNCHANGED AgentFrame

\* The rest of the attempt: expected_file.exists(), the inventory, validate_test,
\* run_pytest on the new test, arbitrate_test.
RedVerify ==
    /\ agent.fn = "run_ratchet_red"
    /\ agent.pc = "verify"
    /\ \E valid \in BOOLEAN, passed \in BOOLEAN, keep \in BOOLEAN :
         LET v == RedVerdict(agent, valid, passed, keep)
             a == [agent EXCEPT !.att = RedAtt(v, valid),
                                !.passes = IF v \in {"passed", "keep", "discard"}
                                           THEN @ + 1 ELSE @]
             id == CHOOSE t \in NewTests(agent) : TRUE
         IN agent' =
              CASE v = "accept" ->
                     Returns(a, [Success(a.retries) EXCEPT !.test = id])
                [] v = "keep" ->
                     Returns(a, [Success(a.retries) EXCEPT !.test = id,
                                                           !.skipped_green = TRUE])
                [] v = "discard" -> RedDiscard(a)
                [] v = "no_file" -> RejectAttempt(a, "Expected test file not created")
                [] v = "count" -> RejectAttempt(a, "Expected exactly 1 new test")
                [] v = "invalid" -> RejectAttempt(a, "Test validation failed")
                [] v = "passed" -> RejectAttempt(a, "Test passed but should fail")
    /\ UNCHANGED AgentFrame

\* ratchet_red_node after deps.run_ratchet_red has returned.
RatchetRedNodeReturns ==
    /\ agent.fn = "run_ratchet_red"
    /\ agent.pc = "returned"
    /\ agent' = [agent EXCEPT
                   !.pc = "node_returned",
                   !.ret = IF ~agent.result.success
                           THEN NodeReturn("NodeError", "Red phase failed", <<>>)
                           ELSE IF agent.result.skipped_green
                           THEN NodeReturn("MoveToNode", "ratchet_iterator_node", <<>>)
                           ELSE NodeReturn("MoveToNode", "ratchet_green_node", <<>>)]
    /\ UNCHANGED AgentFrame

\* match node_result of the unit's run_graph on the value the node returned:
\* case NodeError raises NodeErrored, case MoveToNode dispatches fn.
AgentNodeMatch ==
    /\ agent.pc = "node_returned"
    /\ agent' = [agent EXCEPT
                   !.pc = "matched",
                   !.ended = IF agent.ret.kind = "NodeError" THEN "NodeErrored"
                             ELSE "dispatched"]
    /\ UNCHANGED AgentFrame

\* ---- run_ratchet_green ----

\* The file keys of a coverage report as path components: the unit's module
\* as module_path names it, the same file as an absolute path, another file.
ModulePath == <<"src", "pkg", "core.py">>
CoverageKeys ==
    {ModulePath, <<"production">> \o ModulePath, <<"src", "pkg", "other.py">>}
\* The file a key names: the relative and the absolute key name the same file.
FileOf(key) == key[Len(key)]

\* coverage.json of run_pytest_with_coverage: "files" in the order of the
\* report, one entry per measured file.
CoverageEntries == [key : CoverageKeys, missing_lines : SUBSET (1..MaxLine)]
CoverageReports ==
    {[data |-> TRUE, files |-> fs] :
       fs \in {<<>>} \cup {<<e>> : e \in CoverageEntries}
              \cup {p \in CoverageEntries \X CoverageEntries :
                      FileOf(p[1].key) # FileOf(p[2].key)}}

\* str.endswith, on path components.
EndsWith(s, t) ==
    /\ Len(t) <= Len(s)
    /\ SubSeq(s, Len(s) - Len(t) + 1, Len(s)) = t

KeyMatches(key, module_path) ==
    EndsWith(key, module_path) \/ EndsWith(module_path, key) \/ key = module_path

\* check_coverage_intersection: the missing lines of the first file whose key
\* matches module_path, within start_line..end_line.
check_coverage_intersection(coverage_data, module_path, start_line, end_line) ==
    LET hits == {i \in 1..Len(coverage_data.files) :
                   KeyMatches(coverage_data.files[i].key, module_path)}
    IN IF hits = {} THEN {}
       ELSE coverage_data.files[Min(hits)].missing_lines \cap start_line..end_line

\* Faulty variant: a round whose tests pass ends the loop whatever coverage says.
GreenAcceptsPassing(passed, dead) == passed

\* if pytest_result.success: ... if not dead_code_lines: success.
GreenAccepts(passed, dead) == passed /\ dead = {}

\* Faulty variant: the developer gets one more round than the budget.
GreenRejectOneMore(a, error) ==
    IF a.retries + 1 <= a.max_retries
    THEN [a EXCEPT !.retries = @ + 1, !.queries = @ + 1, !.pc = "receive",
                   !.prompt = error]
    ELSE Returns([a EXCEPT !.ws = Rewound(a), !.retries = @ + 1],
                 Failure(a.retries + 1, error))

\* retries += 1; below the budget the failure (or the dead lines) is sent back
\* to the developer in the same conversation, otherwise rewind and fail.
GreenReject(a, error) ==
    IF a.retries + 1 < a.max_retries
    THEN [a EXCEPT !.retries = @ + 1, !.queries = @ + 1, !.pc = "receive",
                   !.prompt = error]
    ELSE Returns([a EXCEPT !.ws = Rewound(a), !.retries = @ + 1],
                 Failure(a.retries + 1, error))

\* await client.query(base_prompt), then while retries < max_retries.
GreenStart ==
    /\ agent.fn = "run_ratchet_green"
    /\ agent.pc = "start"
    /\ agent' = IF agent.retries < agent.max_retries
                THEN [agent EXCEPT !.pc = "receive", !.queries = @ + 1]
                ELSE Returns([agent EXCEPT !.queries = @ + 1],
                             Failure(agent.retries, "Max retries exceeded"))
    /\ UNCHANGED AgentFrame

\* async for message in client.receive_response(): the developer edits the
\* unit's module; checkpoint_id keeps the first uuid seen; an agent error is
\* caught by the try around the whole conversation.
GreenReceive ==
    /\ agent.fn = "run_ratchet_green"
    /\ agent.pc = "receive"
    /\ \E c \in 0..MaxEdits, ck \in BOOLEAN, err \in BOOLEAN :
         LET a == [agent EXCEPT !.ws = [@ EXCEPT !.code = c],
                                !.checkpoint_id = @ \/ ck, !.attempts = @ + 1,
                                !.att = NoAtt]
         IN agent' = IF err THEN Returns(a, Failure(a.retries, "exception"))
                     ELSE [a EXCEPT !.pc = "verify"]
    /\ UNCHANGED AgentFrame

\* run_pytest on the whole suite, then run_pytest_with_coverage and
\* check_coverage_intersection.
GreenVerify ==
    /\ agent.fn = "run_ratchet_green"
    /\ agent.pc = "verify"
    /\ \E passed \in BOOLEAN, cov \in CoverageReports \cup {NoCoverage} :
         LET dead == check_coverage_intersection(cov, ModulePath, agent.line_number,
                                                 agent.end_line_number)
             a == [agent EXCEPT !.att = [NoAtt EXCEPT
                                           !.pytest = IF passed THEN "passed" ELSE "failed",
                                           !.cov = IF passed THEN cov ELSE NoCoverage]]
         IN agent' =
              IF passed /\ ~cov.data
              THEN Returns(a, Failure(a.retries, "Coverage data could not be collected"))
              ELSE IF GreenAccepts(passed, dead) THEN Returns(a, Success(a.retries))
              ELSE GreenReject(a, IF passed THEN "Dead code" ELSE "Tests still failing")
    /\ UNCHANGED AgentFrame

\* ratchet_green_node after deps.run_ratchet_green has returned.
RatchetGreenNodeReturns ==
    /\ agent.fn = "run_ratchet_green"
    /\ agent.pc = "returned"
    /\ agent' = [agent EXCEPT
                   !.pc = "node_returned",
                   !.ret = IF ~agent.result.success
                           THEN NodeReturn("NodeError", "Green phase failed", <<>>)
                           ELSE NodeReturn("MoveToNode", "ratchet_iterator_node", <<>>)]
    /\ UNCHANGED AgentFrame

\* ---- run_sentinel ----

\* Faulty variant: every test function of the file counts as added.
AddedTestsAny(a) == a.ws.tests

\* added_tests = new_tests - old_tests, both read off the test file's text.
AddedTests(a) == a.ws.tests \ a.existing.tests

\* if not test_file_abs.exists(): failure; otherwise the while loop queries.
SentinelQuery ==
    /\ agent.fn = "run_sentinel"
    /\ agent.pc \in {"start", "loop"}
    /\ agent' = IF agent.pc = "start" /\ ~agent.ws.file
                THEN Returns(agent, Failure(0, "Test file does not exist"))
                ELSE IF agent.retries < agent.max_retries
                THEN [agent EXCEPT !.pc = "receive", !.checkpoint_id = FALSE,
                                   !.before = agent.ws, !.att = NoAtt,
                                   !.queries = @ + 1]
                ELSE Returns(agent, Failure(agent.retries, "Max retries exceeded"))
    /\ UNCHANGED AgentFrame

\* async for message in client.receive_response(): the sentinel edits the
\* test file.
SentinelReceive ==
    /\ agent.fn = "run_sentinel"
    /\ agent.pc = "receive"
    /\ \E ts \in SUBSET (1..MaxIds), c \in 0..MaxEdits, ck \in BOOLEAN, err \in BOOLEAN :
         LET a == [agent EXCEPT !.ws = [@ EXCEPT !.tests = ts, !.code = c],
                                !.checkpoint_id = ck, !.attempts = @ + 1]
         IN agent' = IF err THEN RetryAfterException(a)
                     ELSE [a EXCEPT !.pc = "verify"]
    /\ UNCHANGED AgentFrame

\* new_content == existing_tests, then the count of added test functions.
SentinelVerify ==
    /\ agent.fn = "run_sentinel"
    /\ agent.pc = "verify"
    /\ agent' = IF agent.ws = agent.existing
                THEN RejectAttempt(agent, "Test file was not modified")
                ELSE IF AddedTests(agent) = {}
                THEN RejectAttempt(agent, "No new test function was added")
                ELSE Returns(agent, Success(agent.retries))
    /\ UNCHANGED AgentFrame

\* Faulty variant: the node goes on whatever verify_mutant_killed reports.
SentinelNodeUnverified(a, killed) ==
    IF ~a.result.success
    THEN NodeReturn("NodeError", "Failed to kill mutant", <<>>)
    ELSE IF Tail(a.mutants) # <<>>
    THEN NodeReturn("MoveToNode", "crucible_sentinel_node", Tail(a.mutants))
    ELSE NodeReturn("MoveToNode", "crucible_mutation_node", <<>>)

\* crucible_sentinel_node on a non-empty list, from the result of run_sentinel
\* and what verify_mutant_killed reports for surviving_mutants[0].
SentinelNodeReturn(a, killed) ==
    IF ~a.result.success
    THEN NodeReturn("NodeError", "Failed to kill mutant", <<>>)
    ELSE IF ~killed
    THEN NodeReturn("NodeError", "Sentinel test failed to kill mutant", <<>>)
    ELSE IF Tail(a.mutants) # <<>>
    THEN NodeReturn("MoveToNode", "crucible_sentinel_node", Tail(a.mutants))
    ELSE NodeReturn("MoveToNode", "crucible_mutation_node", <<>>)

\* What the run_mutation_testing awaited by verify_mutant_killed does: it
\* raises, reports success = False, or reports the ids of the mutants that
\* survive with the new test in place.
Reruns ==
    {[raises |-> r, success |-> FALSE, surviving_mutants |-> <<>>] : r \in BOOLEAN}
    \cup {[raises |-> FALSE, success |-> TRUE,
           surviving_mutants |-> SelectSeq([j \in 1..MaxMutants |-> j],
                                           LAMBDA j : j \in S)] :
            S \in SUBSET (1..MaxMutants)}

\* Faulty variant: an exception of the re-run is not caught.
VerifyUncaught(rerun, mutant_id) ==
    [raises |-> rerun.raises,
     killed |-> rerun.success /\ mutant_id \notin Range(rerun.surviving_mutants),
     new_surviving |-> rerun.surviving_mutants,
     error |-> IF rerun.success THEN "" ELSE "Mutation testing failed"]

\* verify_mutant_killed: the VerificationResult, and whether the call raises.
verify_mutant_killed(rerun, mutant_id) ==
    IF rerun.raises
    THEN [raises |-> FALSE, killed |-> FALSE, new_surviving |-> <<>>,
          error |-> "exception"]
    ELSE IF ~rerun.success
    THEN [raises |-> FALSE, killed |-> FALSE, new_surviving |-> <<>>,
          error |-> "Mutation testing failed during verification"]
    ELSE [raises |-> FALSE,
          killed |-> mutant_id \notin Range(rerun.surviving_mutants),
          new_surviving |-> rerun.surviving_mutants, error |-> ""]

\* crucible_sentinel_node after deps.run_sentinel has returned: NodeError on
\* failure, otherwise the verification of surviving_mutants[0].
CrucibleSentinelNodeReturns ==
    /\ agent.fn = "run_sentinel"
    /\ agent.pc = "returned"
    /\ IF ~agent.result.success
       THEN agent' = [agent EXCEPT !.pc = "node_returned",
                                   !.ret = SentinelNodeReturn(agent, FALSE)]
       ELSE \E rerun \in Reruns :
              LET verification == verify_mutant_killed(rerun, Head(agent.mutants))
                  a == [agent EXCEPT
                          !.att = [@ EXCEPT
                                     !.rerun = rerun,
                                     !.error = verification.error,
                                     !.killed = IF verification.raises THEN "raised"
                                                ELSE IF verification.killed THEN "yes"
                                                ELSE "no"]]
              IN agent' =
                   IF verification.raises
                   THEN [a EXCEPT !.pc = "matched", !.ended = "NodeFailed"]
                   ELSE [a EXCEPT !.pc = "node_returned",
                                  !.ret = SentinelNodeReturn(agent, verification.killed)]
    /\ UNCHANGED AgentFrame

\* ---- run_prototyper ----

\* Faulty variant: a failed run is always followed by a fix prompt.
ProtoLastRunNever(iteration) == FALSE

\* if iteration == MAX_PROTOTYPER_ITERATIONS
ProtoLastRun(iteration) == iteration = MAX_PROTOTYPER_ITERATIONS

\* await client.query(prompt): the initial implementation request.
ProtoStart ==
    /\ agent.fn = "run_prototyper"
    /\ agent.pc = "start"
    /\ agent' = [agent EXCEPT !.pc = "receive", !.queries = @ + 1]
    /\ UNCHANGED AgentFrame

\* async for message in client.receive_response(): a ResultMessage with
\* is_error returns failure, with iterations=1 for the initial request.
ProtoReceive ==
    /\ agent.fn = "run_prototyper"
    /\ agent.pc = "receive"
    /\ \E err \in BOOLEAN :
         agent' = IF err
                  THEN Returns(agent, [Failure(0, "agent error") EXCEPT
                                         !.iterations = Max({1, agent.iteration})])
                  ELSE [agent EXCEPT !.pc = "e2e", !.iteration = @ + 1,
                                     !.attempts = @ + 1]
    /\ UNCHANGED AgentFrame

\* for iteration in range(1, MAX_PROTOTYPER_ITERATIONS + 1):
\* test_result = await run_e2e_test(proto_dir); success, the last failure, or
\* a fix prompt in the same conversation.  Nothing catches an exception.
ProtoRunE2e ==
    /\ agent.fn = "run_prototyper"
    /\ agent.pc = "e2e"
    /\ \E r \in {"passed", "failed", "raised"} :
         LET a == [agent EXCEPT !.e2e_runs = @ + 1,
                                !.att = [NoAtt EXCEPT !.pytest = r]]
         IN agent' =
              CASE r = "passed" ->
                     Returns(a, [Success(0) EXCEPT !.iterations = a.iteration])
                [] r = "raised" -> [a EXCEPT !.pc = "matched", !.ended = "NodeFailed"]
                [] r = "failed" ->
                     IF ProtoLastRun(a.iteration)
                     THEN Returns(a, [Failure(0, "Max iterations reached") EXCEPT
                                        !.iterations = a.iteration])
                     ELSE [a EXCEPT !.pc = "receive", !.queries = @ + 1]
    /\ UNCHANGED AgentFrame

\* phase_prototyping_node after deps.run_prototyper has returned.
PhasePrototypingNodeReturns ==
    /\ agent.fn = "run_prototyper"
    /\ agent.pc = "returned"
    /\ agent' = [agent EXCEPT
                   !.pc = "node_returned",
                   !.ret = IF ~agent.result.success
                           THEN NodeReturn("NodeError", "Prototyping failed after", <<>>)
                           ELSE NodeReturn("MoveToNode", "phase_refinement_node", <<>>)]
    /\ UNCHANGED AgentFrame

\* ---- run_refactorer ----

MAX_REFACTOR_ITERATIONS == 5

\* Faulty variant: violations are always followed by a refactoring round.
RefactorLastReviewNever(iteration) == FALSE

\* if iteration == MAX_REFACTOR_ITERATIONS
RefactorLastReview(iteration) == iteration = MAX_REFACTOR_ITERATIONS

\* for iteration in range(1, MAX_REFACTOR_ITERATIONS + 1):
\* review_result = await review_architecture(src_dir); is_clean is success,
\* violations in the last iteration are failure, otherwise the refactor prompt
\* is sent.  After the loop: "Unexpected exit".
RefactorerReview ==
    /\ agent.fn = "run_refactorer"
    /\ agent.pc \in {"start", "loop"}
    /\ \E is_clean \in BOOLEAN :
         LET a == [agent EXCEPT !.iteration = @ + 1, !.reviews = @ + 1,
                                !.att = [@ EXCEPT !.clean = IF is_clean THEN "yes"
                                                            ELSE "no"]]
         IN agent' =
              IF agent.iteration >= MAX_REFACTOR_ITERATIONS
              THEN Returns(agent, [Failure(0, "Unexpected exit") EXCEPT
                                     !.iterations = MAX_REFACTOR_ITERATIONS])
              ELSE IF is_clean
              THEN Returns(a, [Success(0) EXCEPT !.iterations = a.iteration])
              ELSE IF RefactorLastReview(a.iteration)
              THEN Returns(a, [Failure(0, "Violations") EXCEPT
                                 !.iterations = a.iteration])
              ELSE [a EXCEPT !.pc = "refactor", !.queries = @ + 1]
    /\ UNCHANGED AgentFrame

\* async for message in query(prompt=refactor_prompt) and, after a failed
\* end-to-end run, query(prompt=fix_prompt): the agent edits the prototype; a
\* ResultMessage with is_error returns failure.  The fix is followed by the
\* next iteration of the loop.
RefactorerReceive ==
    /\ agent.fn = "run_refactorer"
    /\ agent.pc \in {"refactor", "fix"}
    /\ \E c \in 0..MaxEdits, err \in BOOLEAN :
         LET a == [agent EXCEPT !.ws = [@ EXCEPT !.code = c], !.attempts = @ + 1]
         IN agent' =
              IF err
              THEN Returns(a, [Failure(0, IF agent.pc = "fix" THEN "E2E fix failed"
                                          ELSE "Refactor failed") EXCEPT
                                 !.iterations = a.iteration])
              ELSE [a EXCEPT !.pc = IF agent.pc = "fix" THEN "loop" ELSE "e2e"]
    /\ UNCHANGED AgentFrame

\* test_result = await run_e2e_test(proto_dir, package_name) after the
\* refactoring; if not test_result.success the fix prompt is sent.  Nothing
\* catches an exception.
RefactorerRunE2e ==
    /\ agent.fn = "run_refactorer"
    /\ agent.pc = "e2e"
    /\ \E r \in {"passed", "failed", "raised"} :
         LET a == [agent EXCEPT !.e2e_runs = @ + 1, !.att = [@ EXCEPT !.pytest = r]]
         IN agent' =
              CASE r = "passed" -> [a EXCEPT !.pc = "loop"]
                [] r = "failed" -> [a EXCEPT !.pc = "fix", !.queries = @ + 1]
                [] r = "raised" -> [a EXCEPT !.pc = "matched", !.ended = "NodeFailed"]
    /\ UNCHANGED AgentFrame

\* phase_refinement_node after deps.run_refactorer has returned.
PhaseRefinementNodeReturns ==
    /\ agent.fn = "run_refactorer"
    /\ agent.pc = "returned"
    /\ agent' = [agent EXCEPT
                   !.pc = "node_returned",
                   !.ret = IF ~agent.result.success
                           THEN NodeReturn("NodeError", "Refinement failed", <<>>)
                           ELSE NodeReturn("MoveToNode", "phase_distillation_node", <<>>)]
    /\ UNCHANGED AgentFrame

\* ---- run_mutation_testing ----

\* The records of `cosmic-ray dump`: the line of the mutation (start_pos[0]),
\* test_outcome and worker_outcome.  The j-th record is mutant j.
CosmicRayDumps ==
    UNION {[1..n -> [line_number : 1..MaxLine,
                     test_outcome : {"killed", "survived", "incompetent"},
                     worker_outcome : {"normal", "timeout", "exception"}]] :
             n \in 0..MaxMutants}

\* _parse_cosmic_ray_dump: the records within start_line..end_line are the
\* total; killed if test_outcome is killed or worker_outcome is timeout,
\* surviving if survived with a normal worker.
parse_cosmic_ray_dump(dump, start_line, end_line) ==
    LET filtered == {j \in DOMAIN dump : /\ start_line <= dump[j].line_number
                                         /\ dump[j].line_number <= end_line}
        killed == {j \in filtered : \/ dump[j].test_outcome = "killed"
                                    \/ dump[j].worker_outcome = "timeout"}
        surviving == {j \in filtered \ killed : /\ dump[j].test_outcome = "survived"
                                                /\ dump[j].worker_outcome = "normal"}
    IN [surviving |-> SelectSeq([j \in DOMAIN dump |-> j], LAMBDA j : j \in surviving),
        total |-> Cardinality(filtered),
        killed |-> Cardinality(killed)]

\* run_mutation_testing: a MutationResult; error is what went wrong before
\* the dump could be parsed ("" if nothing did).  score is
\* killed_mutants / total_mutants, or 1.0 without mutants in the range.
run_mutation_testing(error, dump, start_line, end_line) ==
    LET p == parse_cosmic_ray_dump(dump, start_line, end_line)
    IN IF error # ""
       THEN [success |-> FALSE, error |-> error, surviving_mutants |-> <<>>,
             total_mutants |-> 0, killed_mutants |-> 0]
       ELSE IF p.total = 0
       THEN [success |-> TRUE, error |-> "", surviving_mutants |-> <<>>,
             total_mutants |-> 0, killed_mutants |-> 0]
       ELSE [success |-> TRUE, error |-> "", surviving_mutants |-> p.surviving,
             total_mutants |-> p.total, killed_mutants |-> p.killed]

\* result = await deps.run_mutation_testing(...) in crucible_mutation_node.
RunMutationTesting ==
    /\ agent.fn = "run_mutation_testing"
    /\ agent.pc = "start"
    /\ agent' = [agent EXCEPT
                   !.pc = "returned",
                   !.result = run_mutation_testing(agent.error, agent.dump,
                                                   agent.line_number,
                                                   agent.end_line_number)]
    /\ UNCHANGED AgentFrame

\* crucible_mutation_node after the result: NodeError, the sentinel with the
\* surviving mutants if result.score < 1.0, otherwise optimization.
CrucibleMutationNodeReturns ==
    /\ agent.fn = "run_mutation_testing"
    /\ agent.pc = "returned"
    /\ agent' = [agent EXCEPT
                   !.pc = "node_returned",
                   !.ret = IF ~agent.result.success
                           THEN NodeReturn("NodeError", "Mutation testing failed", <<>>)
                           ELSE IF agent.result.killed_mutants < agent.result.total_mutants
                           THEN NodeReturn("MoveToNode", "crucible_sentinel_node",
                                           agent.result.surviving_mutants)
                           ELSE NodeReturn("MoveToNode", "crucible_optimization_node",
                                           <<>>)]
    /\ UNCHANGED AgentFrame

\* ---- phase_distillation_node ----

\* module_path of the units run_distiller returns: the path of a module file
\* the distiller has just read, here pkg/core.py, pkg/shell.py, pkg/score.py
\* and pkg/utils.py.
ModulePaths ==
    {<<"pkg/", "core.py">>, <<"pkg/", "shell.py">>, <<"pkg/", "s", "core.py">>,
     <<"pkg/", "utils.py">>}

\* result.units of run_distiller.
DistillerUnits ==
    UNION {[1..n -> [module_path : ModulePaths, symbol_type : {"function", "constant"}]] :
             n \in 0..MaxUnits}

\* get_target_files: the files of the units whose module_path ends with
\* shell.py or core.py; cleanup_production_code runs process_file on each.
get_target_files(units) ==
    {units[j].module_path : j \in {i \in DOMAIN units :
        \/ EndsWith(units[i].module_path, <<"shell.py">>)
        \/ EndsWith(units[i].module_path, <<"core.py">>)}}

\* Faulty variant: only the units of core.py are kept.
IsCoreOnly(unit) == EndsWith(unit.module_path, <<"core.py">>)

\* is_tdd_target of phase_distillation_node.
is_tdd_target(unit) ==
    \/ EndsWith(unit.module_path, <<"shell.py">>)
    \/ EndsWith(unit.module_path, <<"core.py">>)

\* phase_distillation_node: copy_prototype_to_production, run_distiller,
\* cleanup_production_code (which may fail after some files were stubbed),
\* then the filter of state.unit_queue.
PhaseDistillationNodeReturns ==
    /\ agent.fn = "phase_distillation_node"
    /\ agent.pc = "start"
    /\ \/ \E error \in {"Failed to copy prototype to production", "Distillation failed"} :
            agent' = [agent EXCEPT !.pc = "node_returned",
                                   !.ret = NodeReturn("NodeError", error, <<>>)]
       \/ \E done \in SUBSET get_target_files(agent.units) :
            /\ done # get_target_files(agent.units)
            /\ agent' = [agent EXCEPT !.pc = "node_returned",
                                      !.unit_queue = agent.units,
                                      !.stubbed = done,
                                      !.ret = NodeReturn("NodeError", "Cleanup failed", <<>>)]
       \/ agent' = [agent EXCEPT
                      !.pc = "node_returned",
                      !.stubbed = get_target_files(agent.units),
                      !.unit_queue = SelectSeq(agent.units, is_tdd_target),
                      !.ret = NodeReturn("MoveToNode", "phase_oracle_node", <<>>)]
    /\ UNCHANGED AgentFrame

\* ---- the calls ----

\* A node of nodes.py has just called one of the agents.  The nodes pass no
\* max_retries; the tests of the repository call the functions with smaller ones.
AgentCalls ==
    {AgentCall("run_ratchet_red", m, w, 1, 1, <<>>) :
       m \in 0..MAX_RATCHET_RED_RETRIES, w \in {x \in Workspaces : x.code = 0}}
    \cup {AgentCall("run_ratchet_green", m, [file |-> TRUE, tests |-> {1}, code |-> 0],
                    r[1], r[2], <<>>) :
            m \in 0..MAX_RATCHET_GREEN_RETRIES,
            r \in {x \in (1..MaxLine) \X (1..MaxLine) : x[1] <= x[2]}}
    \cup {AgentCall("run_sentinel", m, w, 1, 1, ms) :
            m \in 0..MAX_SENTINEL_RETRIES,
            w \in {x \in Workspaces : x.code = 0},
            ms \in MutantLists \ {<<>>}}
    \cup {AgentCall("run_prototyper", MAX_PROTOTYPER_ITERATIONS,
                    [file |-> FALSE, tests |-> {}, code |-> 0], 1, 1, <<>>),
          AgentCall("run_refactorer", MAX_REFACTOR_ITERATIONS,
                    [file |-> FALSE, tests |-> {}, code |-> 0], 1, 1, <<>>)}
    \cup {[fn |-> "run_mutation_testing", pc |-> "start", error |-> err, dump |-> d,
           line_number |-> 1, end_line_number |-> 1,
           result |-> run_mutation_testing("not run", <<>>, 1, 1),
           ret |-> NoRet, ended |-> "running"] :
            err \in {"", "Function not found", "cosmic-ray init failed",
                     "cosmic-ray dump failed", "exception"},
            d \in CosmicRayDumps}
    \cup {[fn |-> "phase_distillation_node", pc |-> "start", units |-> us,
           unit_queue |-> <<>>, stubbed |-> {}, ret |-> NoRet, ended |-> "running"] :
            us \in DistillerUnits}

InitAgents ==
    /\ EngineIdle
    /\ topology = "nodes"
    /\ unit_queue = <<>>
    /\ finished_units = <<>>
    /\ o_pc = "idle"
    /\ o_result = [kind |-> "unset", fn |-> "", val |-> <<>>]
    /\ o_outcome = [kind |-> "running", val |-> <<>>]
    /\ o_dispatched = <<>>
    /\ at = "none"
    /\ idx = 0
    /\ engines = <<>>
    /\ o_checkpoints = <<>>
    /\ oracle_calls = <<>>
    /\ capped = TRUE
    /\ flow = NoFlow
    /\ agent \in AgentCalls

NextAgents ==
    \/ RedQuery
    \/ RedReceive
    \/ RedVerify
    \/ RatchetRedNodeReturns
    \/ GreenStart
    \/ GreenReceive
    \/ GreenVerify
    \/ RatchetGreenNodeReturns
    \/ SentinelQuery
    \/ SentinelReceive
    \/ SentinelVerify
    \/ CrucibleSentinelNodeReturns
    \/ ProtoStart
    \/ ProtoReceive
    \/ ProtoRunE2e
    \/ PhasePrototypingNodeReturns
    \/ RefactorerReview
    \/ RefactorerReceive
    \/ RefactorerRunE2e
    \/ PhaseRefinementNodeReturns
    \/ PhaseDistillationNodeReturns
    \/ RunMutationTesting
    \/ CrucibleMutationNodeReturns
    \/ AgentNodeMatch

SpecAgents == InitAgents /\ [][NextAgents]_vars

-----------------------------------------------------------------------------
\* Claims about the agents' retry loops.

RedReturned == agent.fn = "run_ratchet_red" /\ agent.result.set

\* C21: run_ratchet_red returns success with skipped_green = False only if, in
\* the accepted attempt, the expected test file exists, the inventory gained
\* exactly one new test id (the one returned), validate_test accepted it and
\* running just that test failed.
C21_RedAcceptsOnlyANewValidFailingTest ==
    RedReturned /\ agent.result.success /\ ~agent.result.skipped_green
    => /\ agent.ws.file
       /\ Cardinality(agent.ws.tests \ agent.before.tests) = 1
       /\ agent.result.test \in agent.ws.tests \ agent.before.tests
       /\ agent.att.valid = "yes"
       /\ agent.att.pytest = "failed"

\* The first attempt of a call is accepted and the node moves on to ratchet-green.
C21_Witness ==
    /\ RedReturned /\ agent.result.success /\ ~agent.result.skipped_green
    /\ agent.attempts = 1
    /\ agent.ret = NodeReturn("MoveToNode", "ratchet_green_node", <<>>)

\* The arbiter was consulted in the attempt the call ended with.
Arbitrated(d) == agent.fn = "run_ratchet_red" /\ agent.att.decision = d

\* A keep decision: success with the new test and ratchet-green skipped; the
\* node's next dispatch is ratchet_iterator_node.
KeepSkipsGreen ==
    Arbitrated("keep")
    => /\ agent.result.set /\ agent.result.success /\ agent.result.skipped_green
       /\ agent.result.test \in agent.ws.tests \ agent.before.tests
       /\ agent.ret # NoRet
          => agent.ret = NodeReturn("MoveToNode", "ratchet_iterator_node", <<>>)

\* C22 as stated: when the new test passes and the arbiter is consulted, a keep
\* decision makes ratchet-red succeed with ratchet-green skipped, and a discard
\* decision makes ratchet-red retry the attempt (the call has not returned
\* success).
C22_DiscardRetries ==
    /\ KeepSkipsGreen
    /\ Arbitrated("discard") => ~(agent.result.set /\ agent.result.success)

\* C22, amended: when the new test passes and the arbiter is consulted, a keep
\* decision makes ratchet-red succeed with ratchet-green skipped, and a discard
\* decision makes it rewind the test and succeed all the same, with no test
\* path, ratchet-green skipped and no further attempt; in both cases the next
\* dispatch is ratchet_iterator_node.
C22_DiscardSkipsTheTestCase ==
    /\ KeepSkipsGreen
    /\ Arbitrated("discard")
       => /\ agent.result.set /\ agent.result.success /\ agent.result.skipped_green
          /\ agent.result.test = 0
          /\ agent.result.retries = agent.retries
          /\ agent.checkpoint_id => agent.ws = agent.before
          /\ agent.ret # NoRet
             => agent.ret = NodeReturn("MoveToNode", "ratchet_iterator_node", <<>>)

\* A discarded test, rewound, and the unit's run dispatching the iterator.
C22_Witness ==
    /\ Arbitrated("discard")
    /\ agent.checkpoint_id
    /\ agent.pc = "matched" /\ agent.ended = "dispatched"

\* The lines coverage reports unexecuted for the unit's module in the last
\* verification round, within the unit's range.
UnexecutedInRange ==
    LET fs == agent.att.cov.files
    IN UNION {fs[i].missing_lines : i \in {j \in 1..Len(fs) : FileOf(fs[j].key) = "core.py"}}
         \cap agent.line_number..agent.end_line_number

\* C23: run_ratchet_green returns success only if, in its last verification
\* round, the full suite passed and coverage reports no line of the unit's
\* module within [line_number, end_line_number] unexecuted; a round in which
\* the tests pass but such a line is unexecuted is rejected, and retried while
\* the budget lasts.
C23_GreenNeedsPassingSuiteAndNoDeadLine ==
    agent.fn = "run_ratchet_green"
    => /\ agent.result.set /\ agent.result.success
          => /\ agent.att.pytest = "passed"
             /\ agent.att.cov.data
             /\ UnexecutedInRange = {}
       /\ agent.att.pytest = "passed" /\ UnexecutedInRange # {}
          => /\ ~agent.result.success
             /\ IF agent.retries < agent.max_retries
                THEN agent.pc = "receive" /\ agent.prompt = "Dead code"
                ELSE agent.result.set

\* Success in a round after a rejected one, with a line outside the unit's
\* range reported unexecuted.
C23_Witness ==
    /\ agent.fn = "run_ratchet_green"
    /\ agent.result.set /\ agent.result.success
    /\ agent.prompt = "Dead code"
    /\ \E i \in 1..Len(agent.att.cov.files) :
          /\ FileOf(agent.att.cov.files[i].key) = "core.py"
          /\ agent.att.cov.files[i].missing_lines # {}

\* The agent is sent a further prompt in the conversation of a retrying call.
Requeried ==
    /\ agent.fn \in {"run_ratchet_red", "run_ratchet_green", "run_sentinel"}
    /\ agent.queries >= 1
    /\ agent'.queries = agent.queries + 1

\* C24: in ratchet-red, ratchet-green and sentinel every retry is preceded by
\* a rewind of the file edits of the failed attempt: whenever the agent is
\* queried again, the workspace is as it was at the checkpoint of the
\* rejected attempt.
C24_RewindBeforeEveryRetry == [][Requeried => agent.ws = agent.before]_vars

\* C25: run_ratchet_red, run_ratchet_green and run_sentinel end after at most
\* max_retries agent attempts (3, 5 and 3 when the node calls them); once the
\* budget is spent they have returned success = False, the calling node
\* returns NodeError and the unit's run ends with NodeErrored.
C25_BudgetBoundsTheAttempts ==
    agent.fn \in {"run_ratchet_red", "run_ratchet_green", "run_sentinel"}
    => /\ agent.attempts <= agent.max_retries
       /\ agent.max_retries <= CASE agent.fn = "run_ratchet_red" -> 3
                                 [] agent.fn = "run_ratchet_green" -> 5
                                 [] agent.fn = "run_sentinel" -> 3
       /\ agent.retries >= agent.max_retries /\ agent.pc # "start"
          => agent.result.set /\ ~agent.result.success
       /\ agent.ret # NoRet /\ ~agent.result.success => agent.ret.kind = "NodeError"
       /\ agent.pc = "matched" /\ ~agent.result.success => agent.ended = "NodeErrored"

\* The developer has used its five rounds and the unit's run has ended with
\* NodeErrored.
C25_Witness ==
    /\ agent.fn = "run_ratchet_green"
    /\ agent.max_retries = MAX_RATCHET_GREEN_RETRIES
    /\ agent.attempts = agent.max_retries
    /\ agent.retries = agent.max_retries
    /\ agent.ended = "NodeErrored"

\* C26: on success RatchetRedResult.retries is the number of attempts rejected
\* before the accepted one; a first attempt adding no new test followed by an
\* attempt adding exactly one valid failing test gives success with retries = 1.
C26_RetriesCountsRejectedAttempts ==
    RedReturned /\ agent.result.success
    => /\ agent.result.retries = agent.attempts - 1
       /\ agent.attempts = 2 /\ agent.att.pytest = "failed" => agent.result.retries = 1

\* The second attempt, prompted with the inventory error of the first, is
\* accepted.
C26_Witness ==
    /\ RedReturned /\ agent.result.success /\ ~agent.result.skipped_green
    /\ agent.prompt = "Expected exactly 1 new test"
    /\ agent.attempts = 2
    /\ agent.result.retries = 1

-----------------------------------------------------------------------------
\* crucible_flow (src/breakfix/flows/crucible_flow.py): the mutation-testing
\* loop of a unit as a Prefect flow, followed by the optimization task.

\* max_iterations = 10  # Safety limit
max_iterations == 10

\* What mutation_task reports: the mutants in the unit's range, those killed,
\* and the surviving ones (a mutant that is neither counts against the score).
MutationResults ==
    {[total |-> t, killed |-> k, surviving_mutants |-> ms] :
       t \in 0..MaxMutants, k \in 0..MaxMutants, ms \in MutantLists}

\* score = killed_mutants / total_mutants if total_mutants > 0 else 1.0;
\* the score is 1.0 exactly when every mutant counted was killed.
PerfectScore(r) == r.total = 0 \/ r.killed = r.total

FlowCall ==
    [pc |-> "loop", iteration |-> 0, runs |-> 0, last |-> [total |-> 0, killed |-> 0,
     surviving_mutants |-> <<>>], todo |-> <<>>]

FlowFrame == <<engineVars, nestedVars, agent>>

\* while iteration < max_iterations
FlowLoopsOn(f) == f.iteration < max_iterations

\* Faulty variant: any score ends the loop.
FlowBreaksAlways(r) == TRUE

\* if mutation_result.score == 1.0: break
FlowBreaks(r) == PerfectScore(r)

\* One pass of the while loop up to the for loop: iteration += 1, mutation_task,
\* break on a perfect score.  A loop test that fails leads to the optimization
\* phase as well.  mutation_task raises MutationError when the run failed.
FlowMutation ==
    /\ flow.pc = "loop"
    /\ IF FlowLoopsOn(flow)
       THEN \/ \E r \in {x \in MutationResults :
                           x.killed + Len(x.surviving_mutants) <= x.total} :
                 flow' = [flow EXCEPT
                            !.iteration = @ + 1, !.runs = @ + 1, !.last = r,
                            !.pc = IF FlowBreaks(r) THEN "optimization"
                                   ELSE "sentinel",
                            !.todo = IF FlowBreaks(r) THEN <<>>
                                     ELSE r.surviving_mutants]
            \/ flow' = [flow EXCEPT !.iteration = @ + 1, !.runs = @ + 1,
                                    !.pc = "failed"]
       ELSE flow' = [flow EXCEPT !.pc = "optimization"]
    /\ UNCHANGED FlowFrame

\* for mutant in mutation_result.surviving_mutants: await sentinel_task(...),
\* which raises SentinelError unless the mutant was verified killed; after the
\* last mutant the while loop is tested again.
FlowSentinel ==
    /\ flow.pc = "sentinel"
    /\ IF flow.todo = <<>>
       THEN flow' = [flow EXCEPT !.pc = "loop"]
       ELSE \/ flow' = [flow EXCEPT !.todo = Tail(@)]
            \/ flow' = [flow EXCEPT !.pc = "failed", !.todo = <<>>]
    /\ UNCHANGED FlowFrame

\* optimization_result = await optimization_task(...); unit.code = ...
FlowOptimization ==
    /\ flow.pc = "optimization"
    /\ flow' = [flow EXCEPT !.pc = "done"]
    /\ UNCHANGED FlowFrame

InitFlow ==
    /\ EngineIdle
    /\ topology = "nodes"
    /\ unit_queue = <<>>
    /\ finished_units = <<>>
    /\ o_pc = "idle"
    /\ o_result = [kind |-> "unset", fn |-> "", val |-> <<>>]
    /\ o_outcome = [kind |-> "running", val |-> <<>>]
    /\ o_dispatched = <<>>
    /\ at = "none"
    /\ idx = 0
    /\ engines = <<>>
    /\ o_checkpoints = <<>>
    /\ oracle_calls = <<>>
    /\ capped = TRUE
    /\ agent = NoCall
    /\ flow = FlowCall

NextFlow == FlowMutation \/ FlowSentinel \/ FlowOptimization

SpecCrucibleFlow == InitFlow /\ [][NextFlow]_vars

\* crucible_flow has reached its optimization phase.
FlowOptimizes == flow.pc \in {"optimization", "done"}

\* C27 as stated: the optimization step of a unit is entered only after a
\* mutation-testing run for that unit reported a perfect score; a score below
\* 1.0 never leads to optimization without a later perfect run.
C27_OptimizationOnlyAfterPerfectScore ==
    FlowOptimizes => flow.runs >= 1 /\ PerfectScore(flow.last)

\* C27, amended: the optimization step is entered only after the latest
\* mutation-testing run reported a perfect score or, in crucible_flow, after
\* the loop has run mutation testing max_iterations (10) times without one.
C27_OptimizationAfterPerfectScoreOrCeiling ==
    FlowOptimizes
    => \/ flow.runs >= 1 /\ PerfectScore(flow.last)
       \/ flow.runs = max_iterations

\* The tenth run leaves a mutant that is neither killed nor listed as
\* surviving, and the flow goes on to optimize.
C27_Witness ==
    /\ flow.pc = "optimization"
    /\ flow.runs = max_iterations
    /\ ~PerfectScore(flow.last)
    /\ flow.last.surviving_mutants = <<>>

\* C28: the mutation-testing, sentinel, re-verify loop of a unit is bounded by
\* a hard ceiling: whatever the mutation runner reports, from some point on
\* mutation analysis is not run for the unit any more.
C28_MutationAnalysisRunsFinitelyOften ==
    <>[](\A e \in DOMAIN engines : ~Calling(e, "crucible_mutation_node"))

\* C29: crucible_sentinel_node moves from a surviving mutant to the next one,
\* or back to mutation testing, only after verify_mutant_killed reported that
\* mutant killed; if the sentinel fails or the mutant still survives the node
\* returns NodeError and the unit's run ends with NodeErrored.
C29_SentinelNodeMovesOnOnlyAfterTheKill ==
    agent.fn = "run_sentinel" /\ agent.ret # NoRet
    => /\ agent.ret.kind = "MoveToNode"
          => /\ agent.result.success
             /\ agent.att.killed = "yes"
             /\ agent.ret = IF Len(agent.mutants) > 1
                            THEN NodeReturn("MoveToNode", "crucible_sentinel_node",
                                            Tail(agent.mutants))
                            ELSE NodeReturn("MoveToNode", "crucible_mutation_node", <<>>)
       /\ ~agent.result.success \/ agent.att.killed = "no"
          => /\ agent.ret.kind = "NodeError"
             /\ agent.pc = "matched" => agent.ended = "NodeErrored"

\* The first of two surviving mutants was verified killed and the run
\* dispatches the sentinel node for the other.
C29_Witness ==
    /\ agent.fn = "run_sentinel"
    /\ Len(agent.mutants) = 2
    /\ agent.att.killed = "yes"
    /\ agent.ret.fn = "crucible_sentinel_node"
    /\ agent.ended = "dispatched"

\* C30: run_prototyper runs the end-to-end tests at most
\* MAX_PROTOTYPER_ITERATIONS (5) times and sends a fix prompt in the same
\* conversation after every failed run except the last; when the 5th run
\* fails it returns success = False and phase_prototyping_node returns
\* NodeError; on success, iterations is the index of the passing run.
C30_PrototyperRunsE2eAtMostFiveTimes ==
    agent.fn = "run_prototyper"
    => /\ agent.e2e_runs <= 5
       /\ agent.pc \in {"receive", "e2e"} => agent.queries = agent.e2e_runs + 1
       /\ agent.att.pytest = "failed" /\ agent.e2e_runs = 5
          => /\ agent.result.set /\ ~agent.result.success
             /\ agent.result.iterations = 5
             /\ agent.queries = 5
       /\ agent.result.set /\ agent.result.success
          => /\ agent.att.pytest = "passed"
             /\ agent.result.iterations = agent.e2e_runs
             /\ agent.queries = agent.e2e_runs
       /\ agent.ret # NoRet
          => agent.ret.kind = IF agent.result.success THEN "MoveToNode" ELSE "NodeError"

\* The fifth run of the end-to-end tests fails and the node has returned
\* NodeError.
C30_Witness ==
    /\ agent.fn = "run_prototyper"
    /\ agent.e2e_runs = MAX_PROTOTYPER_ITERATIONS
    /\ agent.att.pytest = "failed"
    /\ agent.ret.kind = "NodeError"

\* C31: run_refactorer returns success only in an iteration whose architecture
\* review returned is_clean, performs at most MAX_REFACTOR_ITERATIONS (5)
\* reviews, and has returned failure once the 5th review reports violations.
C31_RefactorerSucceedsOnlyOnACleanReview ==
    agent.fn = "run_refactorer"
    => /\ agent.result.set /\ agent.result.success
          => /\ agent.att.clean = "yes"
             /\ agent.result.iterations = agent.reviews
       /\ agent.reviews <= 5
       /\ agent.reviews = 5 /\ agent.att.clean = "no"
          => agent.result.set /\ ~agent.result.success

\* The fifth review still reports violations and phase_refinement_node has
\* returned NodeError.
C31_Witness ==
    /\ agent.fn = "run_refactorer"
    /\ agent.reviews = 5
    /\ agent.att.clean = "no"
    /\ agent.ret.kind = "NodeError"

\* C40: whenever run_refactorer returns success after at least one refactoring
\* round, the most recent end-to-end test run on the prototype passed.
C40_SuccessOnlyAfterAPassingE2eRun ==
    /\ agent.fn = "run_refactorer"
    /\ agent.result.set
    /\ agent.result.success
    /\ agent.e2e_runs > 0
    => agent.att.pytest = "passed"

\* C35: in run_ratchet_red the test arbiter is invoked only after the newly
\* written test has passed, instead of failing, on two attempts for the same
\* test case.
C35_ArbiterOnlyAfterTwoPassingAttempts ==
    agent.fn = "run_ratchet_red" /\ agent.att.decision # "?"
    => agent.passes >= 2

\* C36: run_sentinel returns success only if the unit's test file holds a test
\* function it did not hold when the sentinel started; if the test file does
\* not exist it returns failure without querying the agent; a failure after
\* at least one attempt (the file left unmodified among them) has retries > 0.
C36_SentinelSucceedsOnlyWithANewTestFunction ==
    agent.fn = "run_sentinel"
    => /\ agent.result.set /\ agent.result.success
          => agent.ws.tests \ agent.existing.tests # {}
       /\ ~agent.existing.file
          => /\ agent.queries = 0
             /\ agent.pc # "start" => agent.result.set /\ ~agent.result.success
       /\ agent.result.set /\ ~agent.result.success /\ agent.attempts > 0
          => agent.result.retries > 0

\* The sentinel left the test file as it was on each of three attempts and
\* the call has returned failure with retries = 3.
C36_Witness ==
    /\ agent.fn = "run_sentinel"
    /\ agent.result.set
    /\ ~agent.result.success
    /\ agent.result.error = "Test file was not modified"
    /\ agent.ws = agent.existing
    /\ agent.attempts = 3
    /\ agent.result.retries = 3

\* C37: verify_mutant_killed returns killed = True if and only if the re-run
\* of mutation testing succeeded and the target mutant id is absent from its
\* surviving list; if the re-run fails or raises, it returns killed = False
\* with an error and does not raise.
C37_KilledIffRerunSucceededWithoutTheMutant ==
    agent.fn = "run_sentinel" /\ agent.att.killed # "?"
    => /\ agent.att.killed = "yes"
          <=> /\ ~agent.att.rerun.raises
              /\ agent.att.rerun.success
              /\ \A i \in DOMAIN agent.att.rerun.surviving_mutants :
                   agent.att.rerun.surviving_mutants[i] # agent.mutants[1]
       /\ agent.att.rerun.raises \/ ~agent.att.rerun.success
          => /\ agent.att.killed = "no"
             /\ agent.att.error # ""
             /\ agent.ended # "NodeFailed"

\* The re-run raised, the verification reported killed = False with an error,
\* and crucible_sentinel_node has returned NodeError.
C37_Witness ==
    /\ agent.fn = "run_sentinel"
    /\ agent.att.rerun.raises
    /\ agent.att.killed = "no"
    /\ agent.att.error = "exception"
    /\ agent.ret.kind = "NodeError"

\* C39: whenever run_mutation_testing reports success with a score below 1.0,
\* its surviving_mutants list is non-empty, so crucible_sentinel_node
\* dispatched after an imperfect run has a mutant to target.
C39_ImperfectScoreNamesASurvivor ==
    /\ agent.fn = "run_mutation_testing"
    /\ agent.pc # "start"
    /\ agent.result.success
    /\ agent.result.killed_mutants < agent.result.total_mutants
    => agent.result.surviving_mutants # <<>>

\* C32: a failure of an inner unit run keeps its kind at the outer level: an
\* inner NodeErrored with message m ends the outer run with NodeErrored whose
\* message names the unit and contains m, an inner NodeFailed ends it with
\* NodeFailed.
C32_InnerFailureKeepsItsKind ==
    /\ o_pc = "done"
    /\ engines # <<>>
    /\ engines[Len(engines)].out.kind \in {"NodeErrored", "NodeFailed"}
    => /\ o_outcome.kind = engines[Len(engines)].out.kind
       /\ o_outcome.kind = "NodeErrored"
          => /\ o_outcome.val.unit = engines[Len(engines)].unit
             /\ o_outcome.val.detail = engines[Len(engines)].out.val

\* C33: when phase_oracle_node returns FinalResult, finished_units holds
\* exactly one marker per unit of unit_queue, in queue order: "Skipped" with
\* the type for a unit that is neither a function nor a class, for which
\* neither the oracle nor an inner graph was invoked, and "Verified" for
\* every other unit.
C33_OneMarkerPerUnitInQueueOrder ==
    topology = "nodes" /\ o_result.kind = "FinalResult"
    => /\ Len(finished_units) = Len(unit_queue)
       /\ \A j \in DOMAIN unit_queue :
            /\ finished_units[j].id = j
            /\ IF unit_queue[j].symbol_type \in {"function", "class"}
               THEN finished_units[j].marker = "Verified"
               ELSE /\ finished_units[j].marker = "Skipped"
                    /\ finished_units[j].type = unit_queue[j].symbol_type
                    /\ \A c \in DOMAIN oracle_calls : oracle_calls[c] # j
                    /\ \A e \in DOMAIN engines : engines[e].unit # j

\* phase_oracle_node has returned FinalResult for a queue that holds a
\* constant between two functions.
C33_Witness ==
    /\ topology = "nodes"
    /\ o_result.kind = "FinalResult"
    /\ Len(unit_queue) = 3
    /\ unit_queue[1].symbol_type = "function"
    /\ unit_queue[2].symbol_type = "constant"
    /\ unit_queue[3].symbol_type = "function"

\* C34: after phase_distillation_node succeeds, state.unit_queue is exactly
\* the order-preserving subsequence of the distiller's units that belong to
\* files stubbed by cleanup_production_code.
C34_QueueIsTheUnitsOfTheStubbedFiles ==
    agent.fn = "phase_distillation_node" /\ agent.ret.kind = "MoveToNode"
    => agent.unit_queue =
         SelectSeq(agent.units, LAMBDA u : u.module_path \in agent.stubbed)

\* The node has succeeded on three units, of pkg/utils.py, pkg/shell.py and
\* pkg/core.py; one of them was dropped.
C34_Witness ==
    /\ agent.fn = "phase_distillation_node"
    /\ agent.ret.kind = "MoveToNode"
    /\ Len(agent.units) = 3
    /\ agent.units[1].module_path = <<"pkg/", "utils.py">>
    /\ agent.units[2].module_path = <<"pkg/", "shell.py">>
    /\ agent.units[3].module_path = <<"pkg/", "core.py">>
    /\ Len(agent.unit_queue) = 2

\* ---------------------------------------------------------------------------
\* The example guessing graph (src/graph/graph.py): run_graph without
\* checkpoints over start_node and guess_node.
\* ---------------------------------------------------------------------------

\* Largest number deps.randomint may draw (10 in the source).
MaxSecret == 3

\* What deps.input may return: the decimal text of a number or other text.
GuessInputs == {ToString(n) : n \in 0..MaxSecret} \cup {"not a number"}

\* int(guess): the number whose decimal text is guess, ValueError without one.
int(guess) ==
    IF \E n \in 0..MaxSecret : ToString(n) = guess
    THEN [ok |-> TRUE, value |-> CHOOSE n \in 0..MaxSecret : ToString(n) = guess]
    ELSE [ok |-> FALSE, value |-> 0]

\* The values a node of the example returns.
GuessResult(kind, text, secret_number, tries, guess) ==
    [kind |-> kind, text |-> text, secret_number |-> secret_number,
     tries |-> tries, guess |-> guess]

\* Faulty variant: the game goes on until the tries are below zero.
GuessNodeOneMoreTry(secret_number, tries, guess, next_guess) ==
    IF ~int(guess).ok
    THEN GuessResult("NodeError", "Invalid input. Please enter a number.", 0, 0, "")
    ELSE IF int(guess).value = secret_number
    THEN GuessResult("FinalResult", "Congratulations! You've guessed the number.", 0, 0, "")
    ELSE IF tries - 1 < 0
    THEN GuessResult("FinalResult", "Game over! The secret number was", secret_number, 0, "")
    ELSE GuessResult("MoveToNode", "", secret_number, tries - 1, next_guess)

\* guess_node(deps, data); next_guess is what deps.input returns when asked.
guess_node(secret_number, tries, guess, next_guess) ==
    IF ~int(guess).ok
    THEN GuessResult("NodeError", "Invalid input. Please enter a number.", 0, 0, "")
    ELSE IF int(guess).value = secret_number
    THEN GuessResult("FinalResult", "Congratulations! You've guessed the number.", 0, 0, "")
    ELSE IF tries - 1 <= 0
    THEN GuessResult("FinalResult", "Game over! The secret number was", secret_number, 0, "")
    ELSE GuessResult("MoveToNode", "", secret_number, tries - 1, next_guess)

\* run_graph(deps, initial, initial_data) up to its loop: the call of
\* start_node, which draws the secret and asks for the first guess.  An
\* exception of deps.input leaves run_graph as NodeFailed.
GuessStart ==
    /\ agent.fn = "guess"
    /\ agent.pc = "start"
    /\ \E secret_number \in 1..MaxSecret, initial_guess \in GuessInputs, raises \in BOOLEAN :
         agent' = IF raises
                  THEN [agent EXCEPT !.pc = "done",
                                     !.outcome = [kind |-> "NodeFailed", text |-> "Initial node failed"]]
                  ELSE [agent EXCEPT !.pc = "loop",
                                     !.secret = secret_number,
                                     !.node_result = GuessResult("MoveToNode", "", secret_number, 3, initial_guess)]
    /\ UNCHANGED AgentFrame

\* One pass of `while node_result: match node_result`.
GuessLoop ==
    /\ agent.fn = "guess"
    /\ agent.pc = "loop"
    /\ LET r == agent.node_result IN
       CASE r.kind = "MoveToNode" ->
              \E next_guess \in GuessInputs, raises \in BOOLEAN :
                LET n == guess_node(r.secret_number, r.tries, r.guess, next_guess) IN
                agent' = IF n.kind = "MoveToNode" /\ raises
                         THEN [agent EXCEPT !.pc = "done",
                                            !.dispatches = @ + 1,
                                            !.guesses = Append(@, r.guess),
                                            !.outcome = [kind |-> "NodeFailed", text |-> "Node execution failed"]]
                         ELSE [agent EXCEPT !.dispatches = @ + 1,
                                            !.guesses = Append(@, r.guess),
                                            !.node_result = n]
         [] r.kind = "FinalResult" ->
              agent' = [agent EXCEPT !.pc = "done",
                                     !.outcome = [kind |-> "return", text |-> r.text]]
         [] r.kind = "NodeError" ->
              agent' = [agent EXCEPT !.pc = "done",
                                     !.outcome = [kind |-> "NodeErrored", text |-> r.text]]
    /\ UNCHANGED AgentFrame

InitGuess ==
    /\ EngineIdle
    /\ topology = "nodes"
    /\ unit_queue = <<>>
    /\ finished_units = <<>>
    /\ o_pc = "idle"
    /\ o_result = [kind |-> "unset", fn |-> "", val |-> <<>>]
    /\ o_outcome = [kind |-> "running", val |-> <<>>]
    /\ o_dispatched = <<>>
    /\ at = "none"
    /\ idx = 0
    /\ engines = <<>>
    /\ o_checkpoints = <<>>
    /\ oracle_calls = <<>>
    /\ capped = TRUE
    /\ flow = NoFlow
    /\ agent = [fn |-> "guess", pc |-> "start", secret |-> 0,
                dispatches |-> 0, guesses |-> <<>>,
                node_result |-> GuessResult("unset", "", 0, 0, ""),
                outcome |-> [kind |-> "running", text |-> ""]]

NextGuess == GuessStart \/ GuessLoop

SpecGuess == InitGuess /\ [][NextGuess]_vars

\* The guess is the decimal text of a number other than the secret.
WrongGuess(guess, secret_number) ==
    \E n \in 0..MaxSecret : ToString(n) = guess /\ n # secret_number

\* C38: every run of the example guessing graph ends after at most three
\* dispatches of guess_node: with the congratulation as soon as a guess equals
\* the secret, with the game-over message naming the secret after three wrong
\* guesses, and with NodeErrored carrying 'Invalid input' at the first guess
\* that is not an integer.  (A run in which deps.input raises ends earlier, as
\* NodeFailed.)
C38_GuessingGameEndsWithinThreeDispatches ==
    agent.fn = "guess" =>
      LET g == agent.guesses
          n == Len(g)
          r == agent.node_result
          o == agent.outcome
      IN  /\ agent.dispatches = n
          /\ n <= 3
          /\ \A i \in 1..(n - 1) : WrongGuess(g[i], agent.secret)
          /\ agent.pc = "done" => o.kind \in {"return", "NodeErrored", "NodeFailed"}
          /\ o.kind = "return" =>
               /\ n >= 1
               /\ \/ /\ o.text = "Congratulations! You've guessed the number."
                     /\ g[n] = ToString(agent.secret)
                  \/ /\ o.text = "Game over! The secret number was"
                     /\ r.secret_number = agent.secret
                     /\ n = 3
                     /\ WrongGuess(g[n], agent.secret)
          /\ o.kind = "NodeErrored" =>
               /\ n >= 1
               /\ o.text = "Invalid input. Please enter a number."
               /\ \A k \in 0..MaxSecret : g[n] # ToString(k)
          /\ o.kind = "NodeFailed" =>
               /\ n < 3
               /\ n >= 1 => WrongGuess(g[n], agent.secret)
          /\ (agent.pc = "loop" /\ n >= 1) =>
               CASE r.kind = "NodeError" -> \A k \in 0..MaxSecret : g[n] # ToString(k)
                 [] r.kind = "FinalResult" ->
                      \/ g[n] = ToString(agent.secret)
                      \/ n = 3 /\ WrongGuess(g[n], agent.secret)
                 [] r.kind = "MoveToNode" ->
                      /\ n < 3
                      /\ WrongGuess(g[n], agent.secret)

\* Three wrong guesses have been dispatched and the run has returned the
\* game-over message.
C38_Witness ==
    /\ agent.fn = "guess"
    /\ agent.pc = "done"
    /\ agent.dispatches = 3
    /\ agent.outcome.kind = "return"
    /\ agent.outcome.text = "Game over! The secret number was"

====
